---- MODULE Spec2Model ----
(***************************************************************************)
(* The chat router of flare_ai_core (api/chat.py) together with the Flare  *)
(* blockchain service, the Vtpm attestation client and the prompt service  *)
(* it drives.  One action handles one POST of the chat endpoint from its   *)
(* first line to its return or raise; the handler is a coroutine without a *)
(* suspension point (the services it calls are synchronous), so a request  *)
(* is one atomic step.                                                     *)
(*                                                                         *)
(* Texts are sequences of characters, so that startswith, equality and     *)
(* the UTF-8 byte length are computed and not assumed.  The completion     *)
(* model, the chain RPC and the attestation socket are oracles: an action  *)
(* draws their answers, failures included, from small sets.                *)
(***************************************************************************)
EXTENDS Integers, Sequences, FiniteSets, TLC

\* ------------------------------------------------------------- bounds
\* Longest pending-transaction store the model lets the send handler build.
MaxQueue == 2
\* Number of accounts Account.create() hands out before the model stops.
MaxAccounts == 2
\* Longest list of nonces handed to get_token directly.
MaxNonces == 2

\* ------------------------------------------------------------- values
\* Python's None; the empty text is falsy exactly like None.
None == <<>>

Truthy(v) == v # None

\* The clients that can POST to the endpoint.  ChatMessage carries no client
\* or session identifier: the handler never learns who sent the message.
Clients == {"A", "B"}

\* The one client of a single conversation.
OneClient == {"A"}

Slash == <<"/">>

ResetCommand == <<"/", "r", "e", "s", "e", "t">>

HelpCommand == <<"/", "h", "e", "l", "p">>

\* A request to send tokens, ten characters long.
SendMsg == <<"s", "e", "n", "d", " ", "1", " ", "F", "L", "R">>

\* The same request with another case, and with a trailing blank.
SendMsgCase == <<"S", "e", "n", "d", " ", "1", " ", "F", "L", "R">>

SendMsgSpace == <<"s", "e", "n", "d", " ", "1", " ", "F", "L", "R", " ">>

\* A shorter request, below the attestation service's nonce length.
ShortMsg == <<"s", "e", "n", "d", " ", "2">>

\* ChatMessage.message: any text of at least one character.
Messages == {ResetCommand, HelpCommand, SendMsg, SendMsgCase, SendMsgSpace, ShortMsg}

\* str.startswith
startswith(s, prefix) ==
    /\ Len(s) >= Len(prefix)
    /\ SubSeq(s, 1, Len(prefix)) = prefix

\* Characters that UTF-8 encodes in two bytes; every other one takes one.
TwoByteChars == {"e-acute", "u-umlaut"}

RECURSIVE utf8_len(_)
\* len(nonce.encode("utf-8"))
utf8_len(s) ==
    IF s = <<>> THEN 0
    ELSE (IF Head(s) \in TwoByteChars THEN 2 ELSE 1) + utf8_len(Tail(s))

\* ------------------------------------------------------------- enum
GENERATE_ACCOUNT == "GenerateAccount"
SEND_TOKEN == "SendToken"
SWAP_TOKEN == "SwapToken"
REQUEST_ATTESTATION == "RequestAttestation"
CONVERSATIONAL == "Conversational"

SemanticRouterResponse ==
    {GENERATE_ACCOUNT, SEND_TOKEN, SWAP_TOKEN, REQUEST_ATTESTATION, CONVERSATIONAL}

\* ------------------------------------------------------------- oracles
\* ai_service.generate: the call raises, or returns a response whose .text
\* raises (no usable candidate), or returns a response with a text.
GenAnswers == {"ok", "notext", "raise"}

\* The text the model returns for the semantic_router prompt: one of the
\* enumeration's labels or something else.
RouterTexts == SemanticRouterResponse \cup {"Unknown"}

\* The chain RPC while signing and sending: everything works, the broadcast
\* (send_raw_transaction) fails, or the broadcast works and waiting for the
\* receipt fails.
ChainAnswers == {"ok", "send_failed", "receipt_failed"}

\* The chain RPC while building a transaction (nonce, gas price, chain id).
BuildAnswers == {"ok", "rpc_failed"}

\* The attestation socket: a token comes back, or the request fails.
AttestationAnswers == {"ok", "failed"}

Dest == <<"0x", "dest">>

\* Addresses to_checksum_address accepts.
ValidAddresses == {Dest}

\* A JSON number.
Float(n) == <<"float", n>>

\* The amount a message asks to send, as the model reads it.
AmountIn(message) == IF message = ShortMsg THEN Float(2) ELSE Float(1)

\* The JSON texts the model returns for the token_send prompt on a message,
\* parsed: the address and amount the message states, or an object that is
\* incomplete or wrong in one way, or (valid FALSE) a text json.loads rejects.
JsonOk(message) == ("to_address" :> Dest @@ "amount" :> AmountIn(message))

JsonZeroAmount == ("to_address" :> Dest @@ "amount" :> Float(0))

JsonOneField == ("to_address" :> Dest)

JsonThreeFields ==
    ("to_address" :> Dest @@ "amount" :> Float(1) @@ "token" :> <<"FLR">>)

JsonOtherKeys == ("recipient" :> Dest @@ "value" :> Float(1))

JsonBadAddress == ("to_address" :> <<"bob">> @@ "amount" :> Float(1))

SendTokenTexts(message) ==
    {[valid |-> TRUE, obj |-> j] :
        j \in {JsonOk(message), JsonZeroAmount, JsonOneField, JsonThreeFields,
               JsonOtherKeys, JsonBadAddress}}
    \cup {[valid |-> FALSE, obj |-> JsonOneField]}

\* dict.get
get(d, key) == IF key \in DOMAIN d THEN d[key] ELSE None

\* ------------------------------------------------------------- prompts
\* A template is a sequence of pieces: a literal text or a ${placeholder}.
Lit(text) == [kind |-> "lit", body |-> text]

Var(name) == [kind |-> "var", body |-> name]

Val(v) == [kind |-> "val", body |-> v]

SEMANTIC_ROUTER == <<Lit("identify which of the responses"), Var("user_input")>>

GENERATE_ACCOUNT_TEMPLATE == <<Lit("You have just generated a new account"), Var("address")>>

TOKEN_SEND == <<Lit("identify address and amount"), Var("user_input")>>

TOKEN_SWAP == <<Lit("identify tokens and amount"), Var("user_input")>>

CONVERSATIONAL_TEMPLATE == <<Lit("Pretend you are Artemis"), Var("user_input")>>

REMOTE_ATTESTATION == <<Lit("The user has requested a remote attestation")>>

TX_CONFIRMATION ==
    <<Lit("The user has successfully confirmed a transaction"),
      Var("block_explorer"), Lit("/tx/"), Var("tx_hash")>>

\* PromptLibrary._initialize_default_prompts: name -> (template, required
\* inputs, mime type).  There is no "follow_up_token_send" entry.
default_prompts ==
    ("semantic_router" :> [template |-> SEMANTIC_ROUTER,
                           required_inputs |-> {"user_input"},
                           response_mime_type |-> "text/x.enum"]
     @@ "token_send" :> [template |-> TOKEN_SEND,
                         required_inputs |-> {"user_input"},
                         response_mime_type |-> "application/json"]
     @@ "token_swap" :> [template |-> TOKEN_SWAP,
                         required_inputs |-> {"user_input"},
                         response_mime_type |-> "application/json"]
     @@ "generate_account" :> [template |-> GENERATE_ACCOUNT_TEMPLATE,
                               required_inputs |-> {"address"},
                               response_mime_type |-> "None"]
     @@ "conversational" :> [template |-> CONVERSATIONAL_TEMPLATE,
                             required_inputs |-> {"user_input"},
                             response_mime_type |-> "None"]
     @@ "request_attestation" :> [template |-> REMOTE_ATTESTATION,
                                  required_inputs |-> {},
                                  response_mime_type |-> "None"]
     @@ "tx_confirmation" :> [template |-> TX_CONFIRMATION,
                              required_inputs |-> {"tx_hash", "block_explorer"},
                              response_mime_type |-> "None"])

\* string.Template.safe_substitute: a placeholder with a value is replaced,
\* one without is left in place.
safe_substitute(template, kwargs) ==
    [i \in 1..Len(template) |->
        IF template[i].kind = "var" /\ template[i].body \in DOMAIN kwargs
        THEN Val(kwargs[template[i].body])
        ELSE template[i]]

\* Prompt.format
format(prompt, kwargs) ==
    IF prompt.required_inputs = {} THEN prompt.template
    ELSE safe_substitute(prompt.template, kwargs)

\* settings.web3_explorer_url
web3_explorer_url == <<"https://coston2-explorer.flare.network/">>

\* ------------------------------------------------------------- a request
\* What one request works on: the services' fields (address, private_key,
\* tx_queue, attestation_requested, simulate; created counts the accounts
\* Account.create() has handed out), the value the last call returned, the
\* exception in flight, and a record of the calls made on the oracles.
NoExc == [type |-> "none", msg |-> <<>>]

\* raise type(msg)
Raise(x, type, msg) == [x EXCEPT !.exc = [type |-> type, msg |-> msg]]

Raised(x) == x.exc.type # "none"

\* return v
Returning(x, v) == [x EXCEPT !.value = v]

\* The statements F after a call that left x: skipped when the call raised.
Then(x, F(_)) == IF Raised(x) THEN x ELSE F(x)

\* One call on an oracle ("completion", "chain", "attestation") and how it
\* ended, in the order the request makes them; classifying tells the calls
\* get_semantic_route makes from those the branches and handlers make.
Call(x, oracle, outcome) ==
    [x EXCEPT !.calls = Append(@, [oracle |-> oracle,
                                   classifying |-> x.branch = "route" /\ x.route = "none",
                                   outcome |-> outcome])]

\* A fixed reply text.
Fixed(reply) == [kind |-> "fixed", body |-> reply]

\* ------------------------------------------------------------- Flare
\* Account.create(): the n-th key pair and its checksum address.
KeyOf(n) == <<"key", n>>

AddressOf(n) == <<"0x", n>>

\* reset that clears the attestation flag as well.
reset_clears_flag(x) ==
    [x EXCEPT !.address = None, !.private_key = None, !.tx_queue = <<>>,
              !.attestation_requested = FALSE]

\* reset that forgets the address and the queue but keeps the key.
reset_keeps_key(x) == [x EXCEPT !.address = None, !.tx_queue = <<>>]

\* reset that forgets the account but keeps the pending transactions.
reset_keeps_queue(x) == [x EXCEPT !.address = None, !.private_key = None]

\* Flare.reset
reset(x) == [x EXCEPT !.address = None, !.private_key = None, !.tx_queue = <<>>]

\* add_tx_to_queue keeping the new entry only.
add_tx_to_queue_single(x, msg, tx) ==
    [x EXCEPT !.tx_queue = <<[msg |-> msg, tx |-> tx]>>, !.appended = TRUE]

\* Flare.add_tx_to_queue
add_tx_to_queue(x, msg, tx) ==
    [x EXCEPT !.tx_queue = Append(@, [msg |-> msg, tx |-> tx]), !.appended = TRUE]

\* generate_account keeping the address only.
generate_account_no_key(x) ==
    [x EXCEPT !.address = AddressOf(x.created + 1),
              !.created = x.created + 1,
              !.value = AddressOf(x.created + 1)]

\* Flare.generate_account
generate_account(x) ==
    [x EXCEPT !.private_key = KeyOf(x.created + 1),
              !.address = AddressOf(x.created + 1),
              !.created = x.created + 1,
              !.value = AddressOf(x.created + 1)]

\* The identifier the chain gives a broadcast transaction, "0x" + hash.
TxHash(tx) == <<"0x", "hash", tx>>

\* w3.eth.account.sign_transaction and the request to send it.
Signed(x, tx) == [x EXCEPT !.chain_sent = Append(@, tx)]

\* w3.eth.send_raw_transaction went through.
Broadcast(x, tx) == Call([x EXCEPT !.broadcast = Append(@, tx)], "chain", "ok")

\* w3.eth.wait_for_transaction_receipt returned: the call returns the hash.
Receipt(x, tx) ==
    Call([x EXCEPT !.receipts = Append(@, TxHash(tx)), !.value = TxHash(tx)],
         "chain", "ok")

\* Flare.sign_and_send_transaction
sign_and_send_transaction(x, tx, chain) ==
    IF ~Truthy(x.private_key) \/ ~Truthy(x.address)
    THEN Raise(x, "ValueError", <<"Account not initialized">>)
    ELSE IF chain = "send_failed"
    THEN Raise(Call(Signed(x, tx), "chain", "failed"),
               "Web3RPCError", <<"send_raw_transaction">>)
    ELSE IF chain = "receipt_failed"
    THEN Raise(Call(Broadcast(Signed(x, tx), tx), "chain", "failed"),
               "TimeExhausted", <<"wait_for_transaction_receipt">>)
    ELSE Receipt(Broadcast(Signed(x, tx), tx), tx)

\* send_tx_in_queue taking the oldest entry (tx_queue[0], pop(0)).
send_tx_in_queue_oldest(x, chain) ==
    IF x.tx_queue # <<>>
    THEN Then(sign_and_send_transaction(x, x.tx_queue[1].tx, chain),
              LAMBDA y : [y EXCEPT !.tx_queue = Tail(@)])
    ELSE Raise(x, "ValueError", <<"Unable to find confirmed tx">>)

\* send_tx_in_queue without the pop.
send_tx_in_queue_keep(x, chain) ==
    IF x.tx_queue # <<>>
    THEN sign_and_send_transaction(x, x.tx_queue[Len(x.tx_queue)].tx, chain)
    ELSE Raise(x, "ValueError", <<"Unable to find confirmed tx">>)

\* send_tx_in_queue emptying the store once the transaction was sent.
send_tx_in_queue_clear(x, chain) ==
    IF x.tx_queue # <<>>
    THEN Then(sign_and_send_transaction(x, x.tx_queue[Len(x.tx_queue)].tx, chain),
              LAMBDA y : [y EXCEPT !.tx_queue = <<>>])
    ELSE Raise(x, "ValueError", <<"Unable to find confirmed tx">>)

\* send_tx_in_queue taking the entry out before it is signed and sent.
send_tx_in_queue_pop_first(x, chain) ==
    IF x.tx_queue # <<>>
    THEN sign_and_send_transaction(
             [x EXCEPT !.tx_queue = SubSeq(@, 1, Len(@) - 1)],
             x.tx_queue[Len(x.tx_queue)].tx, chain)
    ELSE Raise(x, "ValueError", <<"Unable to find confirmed tx">>)

\* Flare.send_tx_in_queue
send_tx_in_queue(x, chain) ==
    IF x.tx_queue # <<>>
    THEN Then(sign_and_send_transaction(x, x.tx_queue[Len(x.tx_queue)].tx, chain),
              LAMBDA y : [y EXCEPT !.tx_queue = SubSeq(@, 1, Len(@) - 1)])
    ELSE Raise(x, "ValueError", <<"Unable to find confirmed tx">>)

\* Web3.to_wei(amount, "ether"): the amount scaled by ten to the 18th.
to_wei(amount) == [mantissa |-> amount[2], exp10 |-> 18]

\* Flare.check_balance; balance_wei is what get_balance answers.
check_balance(x, build, balance_wei) ==
    IF ~Truthy(x.address)
    THEN Raise(x, "ValueError", <<"Account does not exist">>)
    ELSE IF build = "rpc_failed"
    THEN Raise(Call(x, "chain", "failed"), "ConnectionError", <<"get_balance">>)
    ELSE Returning(Call(x, "chain", "ok"), Float(balance_wei.mantissa))

\* create_send_flr_tx reading the chain before it looks for the account.
create_send_flr_tx_rpc_first(x, to_address, amount, build) ==
    IF build = "rpc_failed"
    THEN Raise(Call(x, "chain", "failed"), "ConnectionError",
               <<"get_transaction_count">>)
    ELSE IF ~Truthy(x.address)
    THEN Raise(Call(x, "chain", "ok"), "ValueError", <<"Account does not exist">>)
    ELSE IF to_address \notin ValidAddresses
    THEN Raise(x, "ValueError", <<"to_checksum_address">>)
    ELSE IF amount = None
    THEN Raise(x, "TypeError", <<"to_wei">>)
    ELSE Returning(Call(x, "chain", "ok"),
                   [from |-> x.address, to |-> to_address,
                    value |-> to_wei(amount)])

\* Flare.create_send_flr_tx
create_send_flr_tx(x, to_address, amount, build) ==
    IF ~Truthy(x.address)
    THEN Raise(x, "ValueError", <<"Account does not exist">>)
    ELSE IF build = "rpc_failed"
    THEN Raise(Call(x, "chain", "failed"), "ConnectionError",
               <<"get_transaction_count">>)
    ELSE IF to_address \notin ValidAddresses
    THEN Raise(x, "ValueError", <<"to_checksum_address">>)
    ELSE IF amount = None
    THEN Raise(x, "TypeError", <<"to_wei">>)
    ELSE Returning(Call(x, "chain", "ok"),
                   [from |-> x.address, to |-> to_address,
                    value |-> to_wei(amount)])

\* ------------------------------------------------------------- Vtpm
min_byte_len == 10

max_byte_len == 74

\* _check_nonce_length counting characters.
bad_nonces_chars(nonces) ==
    {i \in 1..Len(nonces) :
        Len(nonces[i]) < min_byte_len \/ Len(nonces[i]) > max_byte_len}

\* Vtpm._check_nonce_length: the nonces outside the valid byte length.
bad_nonces(nonces) ==
    {i \in 1..Len(nonces) :
        utf8_len(nonces[i]) < min_byte_len \/ utf8_len(nonces[i]) > max_byte_len}

SIM_TOKEN == [kind |-> "token", body |-> <<"simulated">>]

\* The token the attestation service issues for a list of nonces.
TokenFor(nonces) == [kind |-> "token", body |-> nonces]

\* get_token was called with these nonces.
Called(x, nonces) == [x EXCEPT !.nonces = Append(@, nonces)]

\* Vtpm._post: the request went to the attestation service.
Posted(x) == [x EXCEPT !.posted = @ + 1]

\* get_token answering with the simulated token before it looks at the
\* nonces.
get_token_simulate_first(x, nonces, att) ==
    IF x.simulate
    THEN Returning(Called(x, nonces), SIM_TOKEN)
    ELSE IF bad_nonces(nonces) # {}
    THEN Raise(Called(x, nonces), "VtpmAttestationError", <<"Nonce must be between">>)
    ELSE IF att = "failed"
    THEN Raise(Call(Posted(Called(x, nonces)), "attestation", "failed"),
               "VtpmAttestationError", <<"Failed to get attestation response">>)
    ELSE Returning(Call(Posted(Called(x, nonces)), "attestation", "ok"),
                   TokenFor(nonces))

\* Vtpm.get_token
get_token(x, nonces, att) ==
    IF bad_nonces(nonces) # {}
    THEN Raise(Called(x, nonces), "VtpmAttestationError", <<"Nonce must be between">>)
    ELSE IF x.simulate
    THEN Returning(Called(x, nonces), SIM_TOKEN)
    ELSE IF att = "failed"
    THEN Raise(Call(Posted(Called(x, nonces)), "attestation", "failed"),
               "VtpmAttestationError", <<"Failed to get attestation response">>)
    ELSE Returning(Call(Posted(Called(x, nonces)), "attestation", "ok"),
                   TokenFor(nonces))

\* ------------------------------------------------------------- prompts, model
\* PromptService.get_formatted_prompt (PromptLibrary.get_prompt, Prompt.format)
get_formatted_prompt(x, prompt_name, kwargs) ==
    IF prompt_name \notin DOMAIN default_prompts
    THEN Raise(x, "KeyError", <<"Prompt not found in library">>)
    ELSE Returning(x, format(default_prompts[prompt_name], kwargs))

\* generate asking the model a second time when the request failed.
generate_again(x, prompt, g) ==
    IF g = "raise"
    THEN Raise(Call(Call([x EXCEPT !.gen_calls = Append(Append(@, prompt), prompt)],
                         "completion", g), "completion", g),
               "GoogleAPIError", <<"generate_content">>)
    ELSE Returning(Call([x EXCEPT !.gen_calls = Append(@, prompt)], "completion", g),
                   [prompt |-> prompt, usable |-> g = "ok"])

\* Gemini.generate: one request to the completion model.
generate(x, prompt, g) ==
    IF g = "raise"
    THEN Raise(Call([x EXCEPT !.gen_calls = Append(@, prompt)], "completion", g),
               "GoogleAPIError", <<"generate_content">>)
    ELSE Returning(Call([x EXCEPT !.gen_calls = Append(@, prompt)], "completion", g),
                   [prompt |-> prompt, usable |-> g = "ok"])

\* The text the model generates for a prompt.
Generated(prompt) == [kind |-> "generated", body |-> prompt]

\* response.text of the response in x.value: `content`, or it raises.
text(x, content) ==
    IF x.value.usable THEN Returning(x, content)
    ELSE Raise(x, "ValueError", <<"response.text">>)

\* get_formatted_prompt, generate and .text in a row, as the handlers that
\* answer with generated text do.
ask(x, prompt_name, kwargs, g) ==
    Then(get_formatted_prompt(x, prompt_name, kwargs),
         LAMBDA p : Then(generate(p, p.value, g),
                         LAMBDA r : text(r, Generated(p.value))))

\* ------------------------------------------------------------- ChatRouter
\* No keyword arguments.
NoArgs == <<>>

\* The handler `name` starts running.
Running(x, name) == [x EXCEPT !.handlers = Append(@, name)]

\* handle_command resetting on every command.
handle_command_always_resets(x, command) ==
    IF startswith(command, Slash)
    THEN Returning(reset(x), Fixed(<<"Reset completed">>))
    ELSE Returning(x, Fixed(<<"Unknown command">>))

\* ChatRouter.handle_command
handle_command(x, command) ==
    IF command = ResetCommand
    THEN Returning(reset(x), Fixed(<<"Reset completed">>))
    ELSE Returning(x, Fixed(<<"Unknown command">>))

\* The try block of ChatRouter.get_semantic_route; `label` is the text the
\* model answers with when it answers.
semantic_route_try(x, message, g, label) ==
    Then(ask(x, "semantic_router", ("user_input" :> message), g),
         LAMBDA t : IF label \notin SemanticRouterResponse
                    THEN Raise(t, "ValueError", <<"not a valid SemanticRouterResponse">>)
                    ELSE Returning(t, label))

\* get_semantic_route letting the failure through.
semantic_route_except_passes(t) ==
    IF Raised(t) THEN [t EXCEPT !.routing_failed = TRUE]
    ELSE [t EXCEPT !.route = t.value]

\* except Exception of get_semantic_route: CONVERSATIONAL.
semantic_route_except(t) ==
    IF Raised(t)
    THEN [t EXCEPT !.exc = NoExc, !.value = CONVERSATIONAL, !.route = CONVERSATIONAL,
                   !.routing_failed = TRUE]
    ELSE [t EXCEPT !.route = t.value]

\* ChatRouter.get_semantic_route
get_semantic_route(x, message, g, label) ==
    semantic_route_except(
        semantic_route_try([x EXCEPT !.classified = @ + 1], message, g, label))

\* handle_generate_account without the test for an existing account.
handle_generate_account_always_new(x, g) ==
    Then(generate_account(Running(x, "handle_generate_account")),
         LAMBDA a : ask(a, "generate_account", ("address" :> a.value), g))

\* ChatRouter.handle_generate_account
handle_generate_account(x, g) ==
    IF Truthy(x.address)
    THEN Returning(Running(x, "handle_generate_account"),
                   [kind |-> "account_exists", body |-> x.address])
    ELSE Then(generate_account(Running(x, "handle_generate_account")),
              LAMBDA a : ask(a, "generate_account", ("address" :> a.value), g))

\* Web3.from_wei(value, "ether")
from_wei(value) == Float(value.mantissa)

\* The preview handle_send_token answers with.
formatted_preview(tx) ==
    [kind |-> "preview",
     body |-> <<from_wei(tx.value), tx.to, <<"Type CONFIRM to proceed.">> >>]

expected_json_len == 2

\* json.loads returned send_token_json.
Loaded(x, send_token_json) == [x EXCEPT !.extracted = Append(@, send_token_json)]

\* handle_send_token creating the missing account once the transaction
\* could be built from the extracted fields.
handle_send_token_account_late(x, message, o) ==
    Then(ask(Running(x, "handle_send_token"), "token_send",
             ("user_input" :> message), o.g_send),
      LAMBDA t :
        IF ~o.send_text.valid
        THEN Raise(t, "JSONDecodeError", <<"json.loads">>)
        ELSE IF \/ Cardinality(DOMAIN o.send_text.obj) # expected_json_len
                \/ get(o.send_text.obj, "amount") = Float(0)
        THEN ask(Loaded(t, o.send_text.obj), "follow_up_token_send", NoArgs,
                 o.g_follow)
        ELSE Then(IF ~Truthy(t.address)
                  THEN handle_generate_account(Loaded(t, o.send_text.obj), o.g_account)
                  ELSE Loaded(t, o.send_text.obj),
               LAMBDA a :
                 Then(create_send_flr_tx(a, get(o.send_text.obj, "to_address"),
                                         get(o.send_text.obj, "amount"), o.build),
                   LAMBDA tx :
                     Returning(add_tx_to_queue(tx, message, tx.value),
                               formatted_preview(tx.value)))))

\* ChatRouter.handle_send_token; o holds the oracles' answers: g_account and
\* g_send for the two completions, send_text for the extracted JSON,
\* g_follow for the follow-up completion, build for the chain RPC.
handle_send_token(x, message, o) ==
    Then(IF ~Truthy(x.address)
         THEN handle_generate_account(Running(x, "handle_send_token"), o.g_account)
         ELSE Running(x, "handle_send_token"),
      LAMBDA a :
        Then(ask(a, "token_send", ("user_input" :> message), o.g_send),
          LAMBDA t :
            IF ~o.send_text.valid
            THEN Raise(t, "JSONDecodeError", <<"json.loads">>)
            ELSE IF \/ Cardinality(DOMAIN o.send_text.obj) # expected_json_len
                    \/ get(o.send_text.obj, "amount") = Float(0)
            THEN ask(Loaded(t, o.send_text.obj), "follow_up_token_send", NoArgs,
                     o.g_follow)
            ELSE Then(create_send_flr_tx(Loaded(t, o.send_text.obj),
                                         get(o.send_text.obj, "to_address"),
                                         get(o.send_text.obj, "amount"), o.build),
                   LAMBDA tx :
                     Returning(add_tx_to_queue(tx, message, tx.value),
                               formatted_preview(tx.value)))))

\* handle_swap_token asking the model to extract the swap, as the send
\* handler does for a transfer.
handle_swap_token_asks(x) ==
    ask(Running(x, "handle_swap_token"), "token_swap", NoArgs, "ok")

\* ChatRouter.handle_swap_token
handle_swap_token(x) ==
    Returning(Running(x, "handle_swap_token"),
              Fixed(<<"Sorry I can't do that right now">>))

\* handle_attestation setting the flag once the reply text has been read.
handle_attestation_after_text(x, g) ==
    Then(get_formatted_prompt(Running(x, "handle_attestation"),
                              "request_attestation", NoArgs),
      LAMBDA p :
        Then(generate(p, p.value, g),
          LAMBDA r :
            Then(text(r, Generated(p.value)),
              LAMBDA t : [t EXCEPT !.attestation_requested = TRUE])))

\* ChatRouter.handle_attestation
handle_attestation(x, g) ==
    Then(get_formatted_prompt(Running(x, "handle_attestation"),
                              "request_attestation", NoArgs),
      LAMBDA p :
        Then(generate(p, p.value, g),
          LAMBDA r :
            text([r EXCEPT !.attestation_requested = TRUE], Generated(p.value))))

\* ChatRouter.handle_conversation
handle_conversation(x, message, g) ==
    Then(generate(Running(x, "handle_conversation"), message, g),
         LAMBDA r : text(r, Generated(message)))

\* The handlers dictionary of route_message.
handlers ==
    (GENERATE_ACCOUNT :> "handle_generate_account"
     @@ SEND_TOKEN :> "handle_send_token"
     @@ SWAP_TOKEN :> "handle_swap_token"
     @@ REQUEST_ATTESTATION :> "handle_attestation"
     @@ CONVERSATIONAL :> "handle_conversation")

\* route_message with the send and swap handlers exchanged.
route_message_exchanged(x, route, message, o) ==
    IF route = GENERATE_ACCOUNT THEN handle_generate_account(x, o.g_account)
    ELSE IF route = SEND_TOKEN THEN handle_swap_token(x)
    ELSE IF route = SWAP_TOKEN THEN handle_send_token(x, message, o)
    ELSE IF route = REQUEST_ATTESTATION THEN handle_attestation(x, o.g_reply)
    ELSE IF route = CONVERSATIONAL THEN handle_conversation(x, message, o.g_reply)
    ELSE Returning(x, Fixed(<<"Unsupported route">>))

\* ChatRouter.route_message
route_message(x, route, message, o) ==
    IF route = GENERATE_ACCOUNT THEN handle_generate_account(x, o.g_account)
    ELSE IF route = SEND_TOKEN THEN handle_send_token(x, message, o)
    ELSE IF route = SWAP_TOKEN THEN handle_swap_token(x)
    ELSE IF route = REQUEST_ATTESTATION THEN handle_attestation(x, o.g_reply)
    ELSE IF route = CONVERSATIONAL THEN handle_conversation(x, message, o.g_reply)
    ELSE Returning(x, Fixed(<<"Unsupported route">>))

\* The if chain with a confirmation test that ignores what follows the
\* triggering message.
chat_branch_prefix(x, message) ==
    IF startswith(message, Slash) THEN "command"
    ELSE IF /\ x.tx_queue # <<>>
            /\ startswith(message, x.tx_queue[Len(x.tx_queue)].msg)
    THEN "confirm"
    ELSE IF x.attestation_requested THEN "attestation"
    ELSE "route"

\* The if chain matching the message against every pending entry.
chat_branch_any_entry(x, message) ==
    IF startswith(message, Slash) THEN "command"
    ELSE IF \E i \in 1..Len(x.tx_queue) : message = x.tx_queue[i].msg
    THEN "confirm"
    ELSE IF x.attestation_requested THEN "attestation"
    ELSE "route"

\* The if chain with the attestation test before the confirmation test.
chat_branch_attestation_first(x, message) ==
    IF startswith(message, Slash) THEN "command"
    ELSE IF x.attestation_requested THEN "attestation"
    ELSE IF /\ x.tx_queue # <<>>
            /\ message = x.tx_queue[Len(x.tx_queue)].msg
    THEN "confirm"
    ELSE "route"

\* The if chain with a confirmation test that looks at the oldest entry.
chat_branch_first_entry(x, message) ==
    IF startswith(message, Slash) THEN "command"
    ELSE IF /\ x.tx_queue # <<>>
            /\ message = x.tx_queue[1].msg
    THEN "confirm"
    ELSE IF x.attestation_requested THEN "attestation"
    ELSE "route"

\* The if chain of chat: which of its four branches takes the message.
chat_branch(x, message) ==
    IF startswith(message, Slash) THEN "command"
    ELSE IF /\ x.tx_queue # <<>>
            /\ message = x.tx_queue[Len(x.tx_queue)].msg
    THEN "confirm"
    ELSE IF x.attestation_requested THEN "attestation"
    ELSE "route"

\* The confirmation branch of chat.
chat_confirm(x, g) ==
    ask(x, "tx_confirmation",
        ("tx_hash" :> x.value @@ "block_explorer" :> web3_explorer_url), g)

\* The body with a confirmation branch that takes the entry out of the
\* store once the confirmation reply has been generated.
chat_body_pop_after_reply(x, message, o) ==
    IF x.branch = "command" THEN handle_command(x, message)
    ELSE IF x.branch = "confirm"
    THEN Then(send_tx_in_queue_keep(x, o.chain),
           LAMBDA sent :
             Then(chat_confirm(sent, o.g_reply),
                  LAMBDA r : [r EXCEPT !.tx_queue = SubSeq(@, 1, Len(@) - 1)]))
    ELSE IF x.branch = "attestation" THEN get_token(x, <<message>>, o.att)
    ELSE Then(get_semantic_route(x, message, o.g_route, o.label),
              LAMBDA routed : route_message(routed, routed.value, message, o))

\* The body of the branch x.branch names.
chat_body(x, message, o) ==
    IF x.branch = "command" THEN handle_command(x, message)
    ELSE IF x.branch = "confirm"
    THEN Then(send_tx_in_queue(x, o.chain), LAMBDA sent : chat_confirm(sent, o.g_reply))
    ELSE IF x.branch = "attestation" THEN get_token(x, <<message>>, o.att)
    ELSE Then(get_semantic_route(x, message, o.g_route, o.label),
              LAMBDA routed : route_message(routed, routed.value, message, o))

\* The try block of chat.
chat_try(x, message, o) ==
    chat_body([x EXCEPT !.branch = chat_branch(x, message)], message, o)

\* An except clause that catches ValueError only.
chat_except_value_error(y) ==
    IF Raised(y) /\ y.exc.type = "ValueError"
    THEN [y EXCEPT !.logged = y.exc,
                   !.exc = [type |-> "HTTPException", msg |-> y.exc.msg],
                   !.status_code = 500,
                   !.value = None]
    ELSE IF Raised(y) THEN [y EXCEPT !.value = None]
    ELSE [y EXCEPT !.status_code = 200]

\* except Exception: log it and raise HTTPException(500, detail=str(e)).
chat_except(y) ==
    IF Raised(y)
    THEN [y EXCEPT !.logged = y.exc,
                   !.exc = [type |-> "HTTPException", msg |-> y.exc.msg],
                   !.status_code = 500,
                   !.value = None]
    ELSE [y EXCEPT !.status_code = 200]

\* ChatRouter._setup_routes.chat
chat(x, message, o) == chat_except(chat_try(x, message, o))

\* ------------------------------------------------------------- Gemini, chat
\* ContentDict(parts=["Hi, I'm Artemis"], role="model")
Greeting == [role |-> "model", parts |-> <<"Hi, I'm Artemis">>]

\* self.chat = None: no chat session.
NoChat == [started |-> FALSE, history |-> <<>>]

\* Nothing has been sent yet.
NothingSent == [after_reset |-> FALSE, started |-> FALSE, continued |-> <<>>]

\* __init__ of GeminiProvider and of Gemini: no session, a history holding
\* the greeting.  after_reset and sent are kept for the properties only:
\* whether reset was the last call, and for the last send_message whether it
\* came right after a reset, whether it started a session, and the history
\* of the session it sent the message on.
NewGemini ==
    [chat |-> NoChat, chat_history |-> <<Greeting>>,
     after_reset |-> FALSE, sent |-> NothingSent]

\* The two clients as constructed.
Constructed == [provider |-> NewGemini, service |-> NewGemini]

\* GenerativeModel.start_chat(history): a session with its own copy of it.
start_chat(history) == [started |-> TRUE, history |-> history]

\* ChatSession.send_message: the message and the model's reply join the
\* session's history when the request succeeds.
chat_send_message(session, msg, g) ==
    IF g = "ok"
    THEN [session EXCEPT !.history = @ \o <<[role |-> "user", parts |-> msg],
                                             [role |-> "model", parts |-> Generated(msg)]>>]
    ELSE session

\* GeminiProvider.reset
provider_reset(s) ==
    [s EXCEPT !.chat_history = <<>>, !.chat = NoChat, !.after_reset = TRUE]

\* Gemini.reset of ai_service
gemini_reset(s) == [s EXCEPT !.chat_history = <<>>, !.after_reset = TRUE]

\* send_message of GeminiProvider and of Gemini: the same statements up to
\* the shape of what they return.
send_message(s, msg, g) ==
    LET session == IF ~s.chat.started THEN start_chat(s.chat_history) ELSE s.chat
    IN [s EXCEPT !.chat = chat_send_message(session, msg, g),
                 !.after_reset = FALSE,
                 !.sent = [after_reset |-> s.after_reset,
                           started |-> ~s.chat.started,
                           continued |-> session.history]]

\* ------------------------------------------------------------- state
\* address, private_key, tx_queue: the fields of the router's one Flare
\* service; attestation_requested, simulate: those of its one Vtpm client;
\* created: how many accounts Account.create() has handed out.
\* owner: which client's request made each entry of tx_queue, set the
\* attestation flag and created the account, and (buried) for each entry of
\* tx_queue whether a newer entry was ever appended behind it (the code keeps
\* none of this).
\* RA_QUEUE: the list of that name of app.py, the earlier endpoint, which
\* keeps the account in USER_ACCOUNT and has no attestation flag; it stays
\* empty under the router.
\* gemini: the two clients of the completion model, ai.GeminiProvider and
\* ai_service.Gemini, each with its chat session and chat_history; the
\* router uses their stateless generate only and leaves them as constructed.
\* inflight: the requests that have arrived at the endpoint and whose
\* handler has not run yet; it stays empty where requests come one by one.
\* last: the request handled last, the state it found and what it did.
VARIABLES address, private_key, tx_queue, attestation_requested, simulate,
          created, owner, RA_QUEUE, gemini, inflight, last

vars == <<address, private_key, tx_queue, attestation_requested, simulate,
          created, owner, RA_QUEUE, gemini, inflight, last>>

\* The context a request starts from.
NewRequest ==
    [address |-> address, private_key |-> private_key, tx_queue |-> tx_queue,
     attestation_requested |-> attestation_requested, simulate |-> simulate,
     created |-> created, RA_QUEUE |-> RA_QUEUE,
     value |-> None, exc |-> NoExc, logged |-> NoExc, status_code |-> 0,
     branch |-> "none", route |-> "none", handlers |-> <<>>,
     chain_sent |-> <<>>, broadcast |-> <<>>, receipts |-> <<>>,
     nonces |-> <<>>, posted |-> 0,
     gen_calls |-> <<>>, classified |-> 0, routing_failed |-> FALSE,
     extracted |-> <<>>, appended |-> FALSE, calls |-> <<>>]

\* Nothing has been made yet.
NoOwner == [tx |-> <<>>, buried |-> <<>>, flag |-> "none", account |-> "none"]

\* No request classified GenerateAccount came just before.
NoBefore ==
    [route |-> "none", status_code |-> 0, response |-> None,
     address |-> None, created |-> 0]

\* The request handled just before the one being handled, remembered when it
\* was classified GenerateAccount: how it ended, and the account and the
\* count of created accounts it started from.
Before ==
    IF last.route = GENERATE_ACCOUNT
    THEN [route |-> last.route, status_code |-> last.status_code,
          response |-> last.response,
          address |-> last.pre.address, created |-> last.pre.created]
    ELSE NoBefore

\* No request was handled just before while another one with its message
\* was in flight.
NoPrior ==
    [message |-> None, tx_queue |-> <<>>, chain_sent |-> <<>>,
     broadcast |-> <<>>, receipts |-> <<>>]

\* The request handled just before the one being handled, remembered when it
\* was handled while a second request with the same message was in flight
\* and exactly one pending transaction, the last one, had that message as
\* its triggering message: the store it found and what it sent to the chain.
Prior ==
    IF /\ last.pre.twin
       /\ {i \in DOMAIN last.pre.tx_queue : last.pre.tx_queue[i].msg = last.message}
             = {Len(last.pre.tx_queue)}
    THEN [message |-> last.message, tx_queue |-> last.pre.tx_queue,
          chain_sent |-> last.chain_sent, broadcast |-> last.broadcast,
          receipts |-> last.receipts]
    ELSE NoPrior

\* The record of a handled request: what it found (pre; twin tells whether
\* a second request with the same message was in flight), what it did and
\* how it ended (status_code 200 with a response, or 500 with a detail).
Observed(c, m, y) ==
    [client |-> c, message |-> m,
     pre |-> [tx_queue |-> tx_queue, address |-> address,
              private_key |-> private_key,
              attestation_requested |-> attestation_requested,
              created |-> created,
              RA_QUEUE |-> RA_QUEUE,
              owner |-> owner,
              after_preview |-> last.appended,
              before |-> Before,
              twin |-> Cardinality({i \in DOMAIN inflight :
                                       inflight[i].message = m}) >= 2,
              prior |-> Prior],
     branch |-> y.branch, route |-> y.route, handlers |-> y.handlers,
     chain_sent |-> y.chain_sent, broadcast |-> y.broadcast,
     receipts |-> y.receipts,
     nonces |-> y.nonces, posted |-> y.posted,
     gen_calls |-> Len(y.gen_calls), classified |-> y.classified,
     routing_failed |-> y.routing_failed,
     extracted |-> y.extracted,
     appended |-> y.appended, calls |-> y.calls,
     status_code |-> y.status_code, response |-> y.value,
     raised |-> y.exc, logged |-> y.logged]

NoRequest ==
    [client |-> "none", message |-> None,
     pre |-> [tx_queue |-> <<>>, address |-> None, private_key |-> None,
              attestation_requested |-> FALSE,
              created |-> 0,
              RA_QUEUE |-> <<>>,
              owner |-> NoOwner,
              after_preview |-> FALSE,
              before |-> NoBefore,
              twin |-> FALSE,
              prior |-> NoPrior],
     branch |-> "none", route |-> "none", handlers |-> <<>>,
     chain_sent |-> <<>>, broadcast |-> <<>>, receipts |-> <<>>,
     nonces |-> <<>>, posted |-> 0,
     gen_calls |-> 0, classified |-> 0, routing_failed |-> FALSE,
     extracted |-> <<>>, appended |-> FALSE, calls |-> <<>>,
     status_code |-> 0, response |-> None, raised |-> NoExc, logged |-> NoExc]

\* Who made what, after client c's request took the services to y.
OwnerAfter(c, y) ==
    [tx |-> IF Len(y.tx_queue) = Len(tx_queue) + 1 THEN Append(owner.tx, c)
            ELSE SubSeq(owner.tx, 1, Len(y.tx_queue)),
     buried |-> IF Len(y.tx_queue) = Len(tx_queue) + 1
                THEN Append([i \in 1..Len(tx_queue) |-> TRUE], FALSE)
                ELSE SubSeq(owner.buried, 1, Len(y.tx_queue)),
     flag |-> IF y.attestation_requested /\ ~attestation_requested THEN c
              ELSE IF ~y.attestation_requested THEN "none"
              ELSE owner.flag,
     account |-> IF y.address = address THEN owner.account
                 ELSE IF y.address = None THEN "none"
                 ELSE c]

\* Flare.__init__ and Vtpm.__init__; simulate is settings.simulate_attestation,
\* False unless the deployment sets it.
Init ==
    /\ address = None
    /\ private_key = None
    /\ tx_queue = <<>>
    /\ attestation_requested = FALSE
    /\ simulate = FALSE
    /\ created = 0
    /\ owner = NoOwner
    /\ RA_QUEUE = <<>>
    /\ gemini = Constructed
    /\ inflight = <<>>
    /\ last = NoRequest

\* The oracles' answers when nothing fails.
Calm ==
    [g_route |-> "ok", label |-> CONVERSATIONAL, g_account |-> "ok",
     g_send |-> "ok", g_follow |-> "ok", g_reply |-> "ok",
     send_text |-> [valid |-> TRUE, obj |-> JsonOneField],
     build |-> "ok", chain |-> "ok", att |-> "ok"]

\* The requests in flight once the handler of one request of client c with
\* message m has run.
Served(c, m) ==
    LET at == {i \in DOMAIN inflight :
                  inflight[i] = [client |-> c, message |-> m]}
    IN IF at = {} THEN inflight
       ELSE LET i == CHOOSE j \in at : \A k \in at : j <= k
            IN SubSeq(inflight, 1, i - 1) \o SubSeq(inflight, i + 1, Len(inflight))

\* One POST: client c sends m, the oracles answer o.
Handle(c, m, o) ==
    \E y \in {chat(NewRequest, m, o)} :
       /\ Len(y.tx_queue) <= MaxQueue
       /\ y.created <= MaxAccounts
       /\ address' = y.address
       /\ private_key' = y.private_key
       /\ tx_queue' = y.tx_queue
       /\ attestation_requested' = y.attestation_requested
       /\ created' = y.created
       /\ owner' = OwnerAfter(c, y)
       /\ last' = Observed(c, m, y)
       /\ inflight' = Served(c, m)
       /\ UNCHANGED <<simulate, RA_QUEUE, gemini>>

\* A message starting with "/".
Command(c, m) ==
    /\ chat_branch(NewRequest, m) = "command"
    /\ Handle(c, m, Calm)

\* A message equal to the last pending transaction's message.
Confirm(c, m) ==
    /\ chat_branch(NewRequest, m) = "confirm"
    /\ \E chain \in ChainAnswers, g \in GenAnswers :
          Handle(c, m, [Calm EXCEPT !.chain = chain, !.g_reply = g])

\* A message taken as the attestation nonce.
Nonce(c, m) ==
    /\ chat_branch(NewRequest, m) = "attestation"
    /\ \E att \in AttestationAnswers :
          Handle(c, m, [Calm EXCEPT !.att = att])

\* A message the model classifies as GenerateAccount.
RouteGenerateAccount(c, m) ==
    /\ chat_branch(NewRequest, m) = "route"
    /\ \E g \in GenAnswers :
          Handle(c, m, [Calm EXCEPT !.label = GENERATE_ACCOUNT, !.g_account = g])

\* The answers the oracles can give to handle_send_token on message m, one
\* failure at a time: a completion that fails, each extracted JSON text, and
\* the chain RPC's answers for the text that builds a transaction.
SendTokenAnswers(m) ==
    LET fine == [Calm EXCEPT !.label = SEND_TOKEN,
                             !.send_text = [valid |-> TRUE, obj |-> JsonOk(m)]]
    IN {[fine EXCEPT !.g_account = g] : g \in GenAnswers}
       \cup {[fine EXCEPT !.g_send = g] : g \in GenAnswers}
       \cup {[fine EXCEPT !.send_text = st] : st \in SendTokenTexts(m)}
       \cup {[fine EXCEPT !.build = b] : b \in BuildAnswers}

\* A message the model classifies as SendToken.
RouteSendToken(c, m) ==
    /\ chat_branch(NewRequest, m) = "route"
    /\ \E o \in SendTokenAnswers(m) : Handle(c, m, o)

\* A message the model classifies as SwapToken.
RouteSwapToken(c, m) ==
    /\ chat_branch(NewRequest, m) = "route"
    /\ Handle(c, m, [Calm EXCEPT !.label = SWAP_TOKEN])

\* A message the model classifies as RequestAttestation.
RouteAttestation(c, m) ==
    /\ chat_branch(NewRequest, m) = "route"
    /\ \E g \in GenAnswers :
          Handle(c, m, [Calm EXCEPT !.label = REQUEST_ATTESTATION, !.g_reply = g])

\* A message the model classifies as Conversational.
RouteConversational(c, m) ==
    /\ chat_branch(NewRequest, m) = "route"
    /\ \E g \in GenAnswers :
          Handle(c, m, [Calm EXCEPT !.label = CONVERSATIONAL, !.g_reply = g])

\* The answers with which classification fails: the completion raises or
\* has no text, or the text is no label of the enumeration.
FailedRouteAnswers ==
    {[Calm EXCEPT !.g_route = gr, !.g_reply = g] :
        gr \in GenAnswers \ {"ok"}, g \in GenAnswers}
    \cup {[Calm EXCEPT !.label = l, !.g_reply = g] :
        l \in RouterTexts \ SemanticRouterResponse, g \in GenAnswers}

\* A message whose classification fails.
RouteFailed(c, m) ==
    /\ chat_branch(NewRequest, m) = "route"
    /\ \E o \in FailedRouteAnswers : Handle(c, m, o)

\* Any request of client c with a message of the set msgs.
Request(c, msgs) ==
    \E m \in msgs :
        \/ Command(c, m)
        \/ Confirm(c, m)
        \/ Nonce(c, m)
        \/ RouteGenerateAccount(c, m)
        \/ RouteSendToken(c, m)
        \/ RouteSwapToken(c, m)
        \/ RouteAttestation(c, m)
        \/ RouteConversational(c, m)
        \/ RouteFailed(c, m)

\* One conversation: every request comes from the same client.
Next == \E c \in OneClient : Request(c, Messages)

Spec == Init /\ [][Next]_vars

\* The messages the clients of the shared endpoint send.
SessionMessages == {ResetCommand, SendMsg, ShortMsg}

\* Several clients of the one endpoint.
NextSessions == \E c \in Clients : Request(c, SessionMessages)

SpecSessions == Init /\ [][NextSessions]_vars

\* ------------------------------------------------------------- get_token
\* A nonce of n one-byte characters, and one of n characters whose first
\* takes two bytes (n + 1 bytes).
Ascii(n) == [i \in 1..n |-> "a"]

Accented(n) == <<"e-acute">> \o Ascii(n - 1)

\* Nonces around both limits, in bytes and in characters.
NonceTexts ==
    {Ascii(9), Ascii(10), Ascii(74), Ascii(75), Accented(9), Accented(74)}

\* The lists of nonces a caller passes.
NonceLists == UNION {[1..n -> NonceTexts] : n \in 0..MaxNonces}

\* The attestation client as constructed, simulating or not.
InitVtpm ==
    /\ address = None
    /\ private_key = None
    /\ tx_queue = <<>>
    /\ attestation_requested = FALSE
    /\ simulate \in BOOLEAN
    /\ created = 0
    /\ owner = NoOwner
    /\ RA_QUEUE = <<>>
    /\ gemini = Constructed
    /\ inflight = <<>>
    /\ last = NoRequest

\* A caller of the attestation client calls get_token(nonces).
GetToken(nonces, att) ==
    \E y \in {get_token([NewRequest EXCEPT !.branch = "get_token"], nonces, att)} :
       /\ last' = Observed("none", None, y)
       /\ attestation_requested' = y.attestation_requested
       /\ UNCHANGED <<address, private_key, tx_queue, simulate, created, owner,
                      RA_QUEUE, gemini, inflight>>

NextVtpm == \E nonces \in NonceLists, att \in AttestationAnswers : GetToken(nonces, att)

SpecVtpm == InitVtpm /\ [][NextVtpm]_vars

\* ------------------------------------------------------------- Flare, direct
\* The Flare service used directly, as its tests and other callers do: any
\* method at any time, on a service with or without an account.
\* The context of a call of the method `name`.
On(name) == [NewRequest EXCEPT !.branch = name]

\* The call took the service to y.
After(y) ==
    /\ Len(y.tx_queue) <= MaxQueue
    /\ y.created <= MaxAccounts
    /\ address' = y.address
    /\ private_key' = y.private_key
    /\ tx_queue' = y.tx_queue
    /\ created' = y.created
    /\ last' = Observed("none", None, y)
    /\ UNCHANGED <<attestation_requested, simulate, owner, RA_QUEUE, gemini,
                   inflight>>

\* The transactions a caller hands to the service.
Transfers ==
    {[from |-> AddressOf(1), to |-> Dest, value |-> to_wei(Float(n))] : n \in 1..2}

CallReset == After(reset(On("reset")))

CallGenerateAccount == After(generate_account(On("generate_account")))

CallAddTxToQueue ==
    \E tx \in Transfers : After(add_tx_to_queue(On("add_tx_to_queue"), SendMsg, tx))

CallSendTxInQueue ==
    \E chain \in ChainAnswers : After(send_tx_in_queue(On("send_tx_in_queue"), chain))

CallSignAndSend ==
    \E tx \in Transfers, chain \in ChainAnswers :
        After(sign_and_send_transaction(On("sign_and_send_transaction"), tx, chain))

CallCheckBalance ==
    \E build \in BuildAnswers :
        After(check_balance(On("check_balance"), build, to_wei(Float(5))))

CallCreateSendFlrTx ==
    \E to_address \in {Dest, <<"bob">>}, amount \in {Float(1), None},
       build \in BuildAnswers :
        After(create_send_flr_tx(On("create_send_flr_tx"), to_address, amount, build))

NextFlare ==
    \/ CallReset
    \/ CallGenerateAccount
    \/ CallAddTxToQueue
    \/ CallSendTxInQueue
    \/ CallSignAndSend
    \/ CallCheckBalance
    \/ CallCreateSendFlrTx

SpecFlare == Init /\ [][NextFlare]_vars

\* ------------------------------------------------------------- app.py
\* The earlier chat endpoint, app.py: module-level LIBRARY, GEMINI,
\* USER_ACCOUNT, ATTESTATION and RA_QUEUE, the prompt library and the model
\* client of models/.  The functions of app.py that have a namesake in
\* chat.py carry the prefix app_.  USER_ACCOUNT's address, private_key and
\* tx_queue are the variables of those names.

\* PromptLibrary._initialize_default_prompts of models/prompt_library.py:
\* name -> (template, required_inputs; {} stands for None).
library_prompts ==
    ("semantic_router" :> [template |-> <<Lit("identify which of the responses"),
                                          Var("user_input")>>,
                           required_inputs |-> {"user_input"}]
     @@ "token_send" :> [template |-> <<Lit("Extract the following information"),
                                        Var("user_input")>>,
                         required_inputs |-> {"user_input"}]
     @@ "follow_up_token_send" :>
            [template |-> <<Lit("A user tried to send tokens, but provided insufficient info")>>,
             required_inputs |-> {}]
     @@ "token_swap" :> [template |-> <<Lit("Extract the following token swap information"),
                                        Var("user_input")>>,
                         required_inputs |-> {"user_input"}]
     @@ "follow_up_token_swap" :>
            [template |-> <<Lit("A user tried to initiate a token swap, but provided insufficient info")>>,
             required_inputs |-> {}]
     @@ "generate_account" :> [template |-> <<Lit("You have just generated a new account"),
                                              Var("address")>>,
                               required_inputs |-> {"address"}]
     @@ "tx_confirmation" :> [template |-> <<Lit("The user has successfully confirmed a transaction"),
                                             Var("tx_hash")>>,
                              required_inputs |-> {"tx_hash"}]
     @@ "conversational" :> [template |-> <<Lit("Pretend you are Artemis"),
                                            Var("user_input")>>,
                             required_inputs |-> {"user_input"}]
     @@ "request_attestation" :>
            [template |-> <<Lit("The user has requested a remote attestation")>>,
             required_inputs |-> {}])

\* PromptLibrary.get_prompt
get_prompt(x, name) ==
    IF name \notin DOMAIN library_prompts
    THEN Raise(x, "KeyError", <<"not found in library">>)
    ELSE Returning(x, library_prompts[name])

\* Prompt.format of models/prompt_library.py; safe_substitute raises no
\* KeyError, so the handler of that error never runs.
prompt_format(x, prompt, kwargs) ==
    IF prompt.required_inputs = {}
    THEN Raise(x, "ValueError", <<"Nothing to format">>)
    ELSE Returning(x, safe_substitute(prompt.template, kwargs))

\* Gemini.generate of models/gemini.py: one request to the completion model.
app_generate(x, prompt, g) ==
    IF g = "raise"
    THEN Raise(Call([x EXCEPT !.gen_calls = Append(@, prompt)], "completion", g),
               "GoogleAPIError", <<"generate_content">>)
    ELSE Returning(Call([x EXCEPT !.gen_calls = Append(@, prompt)], "completion", g),
                   [prompt |-> prompt, usable |-> g = "ok"])

\* get_prompt, format, generate and .text in a row.
app_ask(x, name, kwargs, g) ==
    Then(get_prompt(x, name),
      LAMBDA p :
        Then(prompt_format(p, p.value, kwargs),
          LAMBDA f :
            Then(app_generate(f, f.value, g),
                 LAMBDA r : text(r, Generated(f.value)))))

\* except Exception as e: return f"{msg}: {e!s}"
error_reply(y, msg) ==
    IF Raised(y)
    THEN [y EXCEPT !.exc = NoExc, !.value = [kind |-> "error",
                                             body |-> <<msg, y.exc.msg>>]]
    ELSE y

\* AgentAccount (onchain/account.py), the account and pending-transaction
\* store of USER_ACCOUNT: reset, generate_account, create_send_flr_tx and
\* add_tx_to_queue, and the confirmation of the last pending transaction by
\* the message that made it.
account_reset(x) ==
    [x EXCEPT !.address = None, !.private_key = None, !.tx_queue = <<>>,
              !.value = Fixed(<<"fixed acknowledgement">>)]

account_generate_account(x) == generate_account(x)

account_create_send_flr_tx(x, to_address, amount, build) ==
    create_send_flr_tx(x, to_address, amount, build)

account_add_tx_to_queue(x, msg, tx) == add_tx_to_queue(x, msg, tx)

send_confirmed_tx_and_pop_queue(x, msg, chain) ==
    IF x.tx_queue # <<>> /\ x.tx_queue[Len(x.tx_queue)].msg = msg
    THEN Then(sign_and_send_transaction(x, x.tx_queue[Len(x.tx_queue)].tx, chain),
              LAMBDA y : [y EXCEPT !.tx_queue = SubSeq(@, 1, Len(@) - 1)])
    ELSE Raise(x, "ValueError", <<"Unable to find confirmed tx">>)

\* VtpmAttestation.get_token of attestation/vtpm_attestation.py
app_get_token(x, nonces, att) ==
    IF bad_nonces(nonces) # {}
    THEN Raise(Called(x, nonces), "VtpmAttestationError", <<"Nonce must be between">>)
    ELSE IF x.simulate
    THEN Returning(Called(x, nonces), SIM_TOKEN)
    ELSE IF att = "failed"
    THEN Raise(Call(Posted(Called(x, nonces)), "attestation", "failed"),
               "VtpmAttestationError", <<"Failed to get attestation response">>)
    ELSE Returning(Call(Posted(Called(x, nonces)), "attestation", "ok"),
                   TokenFor(nonces))

\* handle_generate_account of app.py
app_handle_generate_account(x, g) ==
    Then(account_generate_account(Running(x, "handle_generate_account")),
         LAMBDA a : app_ask(a, "generate_account", ("address" :> a.value), g))

\* The try block of handle_send_token of app.py, after the completion.
send_token_try(r, user_input, o) ==
    Then(text(r, Generated(r.value.prompt)),
      LAMBDA t :
        IF ~o.send_text.valid
        THEN Raise(t, "JSONDecodeError", <<"json.loads">>)
        ELSE IF \/ Cardinality(DOMAIN o.send_text.obj) # 2
                \/ get(o.send_text.obj, "amount") = Float(0)
        THEN app_ask(Loaded(t, o.send_text.obj), "follow_up_token_send", NoArgs,
                     o.g_follow)
        ELSE Then(account_create_send_flr_tx(Loaded(t, o.send_text.obj),
                                             get(o.send_text.obj, "to_address"),
                                             get(o.send_text.obj, "amount"), o.build),
               LAMBDA tx :
                 Returning(account_add_tx_to_queue(tx, user_input, tx.value),
                           [kind |-> "preview",
                            body |-> <<from_wei(tx.value.value), tx.value.to,
                                       <<"Type CONFIRM to proceed.">> >>])))

\* handle_send_token of app.py
app_handle_send_token(x, user_input, o) ==
    Then(get_prompt(Running(x, "handle_send_token"), "token_send"),
      LAMBDA p :
        Then(prompt_format(p, p.value, ("user_input" :> user_input)),
          LAMBDA f :
            Then(app_generate(f, f.value, o.g_send),
              LAMBDA r :
                error_reply(send_token_try(r, user_input, o),
                            <<"Error creating transaction">>))))

\* handle_swap_token of app.py
app_handle_swap_token(x, msg, g) ==
    app_ask(Running(x, "handle_swap_token"), "token_swap", ("user_input" :> msg), g)

\* handle_remote_attestation
handle_remote_attestation(x, g) ==
    error_reply(
        Then(get_prompt(Running(x, "handle_remote_attestation"), "request_attestation"),
          LAMBDA p :
            Then(app_generate(p, p.value.template, g),
              LAMBDA r :
                Then(text(r, Generated(p.value.template)),
                     LAMBDA t : [t EXCEPT !.RA_QUEUE = Append(@, t.value)]))),
        <<"Error confirming tx">>)

\* handle_confirmed_tx
handle_confirmed_tx(x, msg, o) ==
    error_reply(
        Then(send_confirmed_tx_and_pop_queue(Running(x, "handle_confirmed_tx"),
                                             msg, o.chain),
             LAMBDA sent : app_ask(sent, "tx_confirmation",
                                   ("tx_hash" :> sent.value), o.g_reply)),
        <<"Error confirming tx">>)

\* map_to_enum
map_to_enum(x, value) ==
    IF value \notin SemanticRouterResponse
    THEN Raise(x, "ValueError", <<"No matching enum value">>)
    ELSE Returning(x, value)

\* handle_semantic_routing
handle_semantic_routing(x, msg, g, label) ==
    semantic_route_except(
        Then(app_ask([x EXCEPT !.classified = @ + 1], "semantic_router",
                     ("user_input" :> msg), g),
             LAMBDA t : map_to_enum(t, label)))

\* The account a send or a swap needs, generated when there is none.
with_account(x, g) ==
    IF ~Truthy(x.address) THEN app_handle_generate_account(x, g) ELSE x

\* The match statement of chat of app.py.
app_route(x, router_response, message, o) ==
    IF router_response = GENERATE_ACCOUNT
    THEN IF ~Truthy(x.address) THEN app_handle_generate_account(x, o.g_account)
         ELSE Returning(x, [kind |-> "account_exists", body |-> x.address])
    ELSE IF router_response = SEND_TOKEN
    THEN Then(with_account(x, o.g_account),
              LAMBDA a : app_handle_send_token(a, message, o))
    ELSE IF router_response = SWAP_TOKEN
    THEN Then(with_account(x, o.g_account),
              LAMBDA a : app_handle_swap_token(a, message, o.g_reply))
    ELSE IF router_response = REQUEST_ATTESTATION
    THEN handle_remote_attestation(x, o.g_reply)
    ELSE app_ask(x, "conversational", ("user_input" :> message), o.g_reply)

\* The stage of chat of app.py that takes the message: "/reset" returns at
\* once, any other message goes on to the test of tx_queue, then of RA_QUEUE.
app_branch(x, message) ==
    IF startswith(message, Slash) /\ message = ResetCommand THEN "command"
    ELSE IF x.tx_queue # <<>> THEN "confirm"
    ELSE IF x.RA_QUEUE # <<>> THEN "attestation"
    ELSE "route"

\* except Exception as e: raise HTTPException(status_code=500, detail=str(e))
app_except(y) ==
    IF Raised(y) THEN [y EXCEPT !.exc = [type |-> "HTTPException", msg |-> y.exc.msg]]
    ELSE y

\* The stages of chat of app.py; only the last one is inside the try.
app_body(x, message, o) ==
    IF x.branch = "command" THEN account_reset(x)
    ELSE IF x.branch = "confirm" THEN handle_confirmed_tx(x, message, o)
    ELSE IF x.branch = "attestation"
    THEN Then(app_get_token(x, <<message>>, o.att),
              LAMBDA t : [t EXCEPT !.RA_QUEUE = <<>>])
    ELSE app_except(
             Then(handle_semantic_routing(x, message, o.g_route, o.label),
                  LAMBDA routed : app_route(routed, routed.value, message, o)))

\* The response of the endpoint: 200 with what chat returned, 500 when an
\* exception left it.
responded(y) ==
    IF Raised(y) THEN [y EXCEPT !.status_code = 500, !.value = None]
    ELSE [y EXCEPT !.status_code = 200]

\* chat of app.py
app_chat(x, message, o) ==
    responded(app_body([x EXCEPT !.branch = app_branch(x, message)], message, o))

\* SIMULATE_ATTESTATION is read by load_env_var, which returns a text that is
\* not empty: ATTESTATION.simulate is truthy whatever the text says.
InitApp ==
    /\ address = None
    /\ private_key = None
    /\ tx_queue = <<>>
    /\ attestation_requested = FALSE
    /\ simulate = TRUE
    /\ created = 0
    /\ owner = NoOwner
    /\ RA_QUEUE = <<>>
    /\ gemini = Constructed
    /\ inflight = <<>>
    /\ last = NoRequest

\* The messages sent to the endpoint of app.py.
AppMessages == {ResetCommand, HelpCommand, SendMsg, ShortMsg}

\* One POST to the endpoint of app.py.
AppHandle(m, o) ==
    \E y \in {app_chat(NewRequest, m, o)} :
       /\ Len(y.tx_queue) <= MaxQueue
       /\ y.created <= MaxAccounts
       /\ address' = y.address
       /\ private_key' = y.private_key
       /\ tx_queue' = y.tx_queue
       /\ created' = y.created
       /\ RA_QUEUE' = y.RA_QUEUE
       /\ last' = Observed("A", m, y)
       /\ UNCHANGED <<attestation_requested, simulate, owner, gemini, inflight>>

AppCommand(m) ==
    /\ app_branch(NewRequest, m) = "command"
    /\ AppHandle(m, Calm)

AppConfirm(m) ==
    /\ app_branch(NewRequest, m) = "confirm"
    /\ \E chain \in ChainAnswers, g \in GenAnswers :
          AppHandle(m, [Calm EXCEPT !.chain = chain, !.g_reply = g])

AppNonce(m) ==
    /\ app_branch(NewRequest, m) = "attestation"
    /\ AppHandle(m, Calm)

\* The answers of the model to a message it classifies as `label`: the
\* completion of the account or of the reply fails, or none does.
IntentAnswers(label) ==
    {[Calm EXCEPT !.label = label, !.g_account = g] : g \in GenAnswers}
    \cup {[Calm EXCEPT !.label = label, !.g_reply = g] : g \in GenAnswers}

AppRouteSendToken(m) ==
    /\ app_branch(NewRequest, m) = "route"
    /\ \E o \in SendTokenAnswers(m) : AppHandle(m, o)

AppRouteOther(m) ==
    /\ app_branch(NewRequest, m) = "route"
    /\ \E label \in SemanticRouterResponse \ {SEND_TOKEN} :
          \E o \in IntentAnswers(label) : AppHandle(m, o)

AppRouteFailed(m) ==
    /\ app_branch(NewRequest, m) = "route"
    /\ \E o \in FailedRouteAnswers : AppHandle(m, o)

NextApp ==
    \E m \in AppMessages :
        \/ AppCommand(m)
        \/ AppConfirm(m)
        \/ AppNonce(m)
        \/ AppRouteSendToken(m)
        \/ AppRouteOther(m)
        \/ AppRouteFailed(m)

SpecApp == InitApp /\ [][NextApp]_vars

\* ------------------------------------------------------------- properties
\* The request handled last met a store whose last entry its message equals.
MatchesLast ==
    /\ last.branch # "none"
    /\ last.pre.tx_queue # <<>>
    /\ last.message = last.pre.tx_queue[Len(last.pre.tx_queue)].msg

\* The texts of the failures of the chain and completion oracles.
OracleFailures ==
    {<<"send_raw_transaction">>, <<"wait_for_transaction_receipt">>,
     <<"generate_content">>, <<"response.text">>}

\* The reply chat builds from a transaction identifier.
ConfirmationOf(tx_hash) ==
    Generated(safe_substitute(TX_CONFIRMATION,
        ("tx_hash" :> tx_hash @@ "block_explorer" :> web3_explorer_url)))

\* C1: a message that does not start with "/" and equals the triggering
\* message of the last entry of a non-empty store is a confirmation: exactly
\* that entry's transaction is handed to the chain oracle; when the oracle
\* returns an identifier exactly that entry leaves the store (the others stay,
\* in order) and the reply is the text generated from the confirmation prompt
\* with that identifier; nothing but a failing oracle ends the request
\* otherwise, and then nothing is removed unless the identifier was returned.
C1_ConfirmSubmitsLastEntry ==
    (MatchesLast /\ ~startswith(last.message, Slash)) =>
        LET pending == last.pre.tx_queue
            T == pending[Len(pending)]
        IN /\ last.branch = "confirm"
           /\ last.chain_sent = <<T.tx>>
           /\ last.receipts \in {<<>>, <<TxHash(T.tx)>>}
           /\ last.receipts # <<>> => tx_queue = SubSeq(pending, 1, Len(pending) - 1)
           /\ last.receipts = <<>> => tx_queue = pending /\ last.status_code = 500
           /\ last.status_code = 200 =>
                 /\ last.receipts # <<>>
                 /\ last.response = ConfirmationOf(last.receipts[1])
           /\ last.status_code = 500 => last.logged.msg \in OracleFailures

\* C1 happens: a confirmation with an older entry behind it went through.
C1_Witness ==
    /\ last.branch = "confirm"
    /\ last.status_code = 200
    /\ Len(last.pre.tx_queue) = 2
    /\ last.pre.tx_queue[1].tx # last.pre.tx_queue[2].tx
    /\ tx_queue = <<last.pre.tx_queue[1]>>

\* C2 as stated: while T is the last entry, any message other than T's leaves
\* T in the store and is classified.
C2_AnyOtherMessageClassified ==
    (/\ last.branch # "none"
     /\ last.pre.tx_queue # <<>>
     /\ last.message # last.pre.tx_queue[Len(last.pre.tx_queue)].msg) =>
        /\ Len(tx_queue) >= Len(last.pre.tx_queue)
        /\ SubSeq(tx_queue, 1, Len(last.pre.tx_queue)) = last.pre.tx_queue
        /\ last.classified = 1

\* C2, amended: while T is the last entry, a message other than T's that does
\* not start with "/" leaves T (and every older entry) in the store; it is
\* classified, once, when the attestation flag is not set, and is taken as the
\* attestation nonce without classification when the flag is set.
C2_OtherMessageKeepsPending ==
    (/\ last.branch # "none"
     /\ last.pre.tx_queue # <<>>
     /\ last.message # last.pre.tx_queue[Len(last.pre.tx_queue)].msg
     /\ ~startswith(last.message, Slash)) =>
        /\ Len(tx_queue) >= Len(last.pre.tx_queue)
        /\ SubSeq(tx_queue, 1, Len(last.pre.tx_queue)) = last.pre.tx_queue
        /\ last.chain_sent = <<>>
        /\ ~last.pre.attestation_requested =>
              last.branch = "route" /\ last.classified = 1 /\ last.nonces = <<>>
        /\ last.pre.attestation_requested =>
              last.branch = "attestation" /\ last.classified = 0

\* C2 happens: the whitespace variant of the pending message was classified
\* and the entry stayed.
C2_Witness ==
    /\ last.message = SendMsgSpace
    /\ last.pre.tx_queue # <<>>
    /\ last.pre.tx_queue[Len(last.pre.tx_queue)].msg = SendMsg
    /\ last.branch = "route"
    /\ last.classified = 1
    /\ tx_queue = last.pre.tx_queue

\* C3 as stated: the flag is false initially, true once a RequestAttestation
\* message has been routed and answered, and the next message, whatever it
\* is, is consumed as the nonce and leaves the flag false.
C3_FlagOneShot ==
    /\ last.branch = "none" => ~attestation_requested
    /\ (last.route = REQUEST_ATTESTATION /\ last.status_code = 200) =>
          attestation_requested
    /\ (last.branch # "none" /\ last.pre.attestation_requested) =>
          /\ last.branch = "attestation"
          /\ last.nonces = << <<last.message>> >>
          /\ ~attestation_requested

\* C4: a message starting with "/" is resolved by handle_command alone:
\* "/reset" resets the Flare service and answers "Reset completed", any other
\* answers "Unknown command" and changes nothing; no transaction is submitted,
\* the attestation oracle and the classifier are not called, no completion is
\* requested, no intent handler runs and the attestation flag keeps its value.
C4_CommandsOnly ==
    (last.branch # "none" /\ startswith(last.message, Slash)) =>
        /\ last.branch = "command"
        /\ last.status_code = 200
        /\ last.chain_sent = <<>>
        /\ last.nonces = <<>>
        /\ last.classified = 0
        /\ last.gen_calls = 0
        /\ last.handlers = <<>>
        /\ attestation_requested = last.pre.attestation_requested
        /\ IF last.message = ResetCommand
           THEN /\ last.response = Fixed(<<"Reset completed">>)
                /\ tx_queue = <<>>
                /\ address = None
                /\ private_key = None
           ELSE /\ last.response = Fixed(<<"Unknown command">>)
                /\ tx_queue = last.pre.tx_queue
                /\ address = last.pre.address
                /\ private_key = last.pre.private_key

\* C4 happens: an unknown command met a pending transaction and a set flag.
C4_Witness ==
    /\ last.message = HelpCommand
    /\ last.branch = "command"
    /\ last.pre.tx_queue # <<>>
    /\ last.pre.attestation_requested
    /\ last.response = Fixed(<<"Unknown command">>)

\* C5: confirmation comes before the attestation stage: with the flag set, a
\* message equal to the last pending transaction's message has that
\* transaction handed to the chain oracle (and removed once the oracle
\* returned the identifier), is not passed to get_token, and the flag keeps
\* its value.
C5_ConfirmationBeforeAttestation ==
    (/\ MatchesLast
     /\ ~startswith(last.message, Slash)
     /\ last.pre.attestation_requested) =>
        LET pending == last.pre.tx_queue
        IN /\ last.branch = "confirm"
           /\ last.chain_sent = <<pending[Len(pending)].tx>>
           /\ last.receipts # <<>> => tx_queue = SubSeq(pending, 1, Len(pending) - 1)
           /\ last.nonces = <<>>
           /\ last.posted = 0
           /\ attestation_requested

\* C5 happens: a confirmation went through while the flag was set.
C5_Witness ==
    /\ last.branch = "confirm"
    /\ last.pre.attestation_requested
    /\ last.status_code = 200
    /\ Len(tx_queue) = Len(last.pre.tx_queue) - 1

\* C6: a message that is neither a command nor a confirmation goes, with the
\* flag set, whole and alone to get_token, whose token is the reply, without
\* classification, completion or handler; with the flag not set it is
\* classified exactly once and route_message runs the handler of the returned
\* intent (handle_send_token itself calls handle_generate_account first when
\* there is no account) and get_token is not called.
C6_NonceOrClassified ==
    (last.branch \notin {"none", "command", "confirm"}) =>
        IF last.pre.attestation_requested
        THEN /\ last.branch = "attestation"
             /\ last.nonces = << <<last.message>> >>
             /\ last.classified = 0
             /\ last.gen_calls = 0
             /\ last.handlers = <<>>
             /\ last.status_code = 200 => last.response = TokenFor(<<last.message>>)
        ELSE /\ last.branch = "route"
             /\ last.classified = 1
             /\ last.route \in SemanticRouterResponse
             /\ last.nonces = <<>>
             /\ \/ last.handlers = <<handlers[last.route]>>
                \/ /\ last.route = SEND_TOKEN
                   /\ last.pre.address = None
                   /\ last.handlers = <<"handle_send_token", "handle_generate_account">>

\* C6 happens: a message was taken as the nonce and the token came back.
C6_Witness ==
    /\ last.branch = "attestation"
    /\ last.status_code = 200
    /\ last.response = TokenFor(<<SendMsg>>)

\* C7 as stated: every request ends by returning a reply; no failure leaves
\* chat as an exception.
C7_AlwaysReturnsReply ==
    last.branch # "none" => last.status_code = 200 /\ last.raised = NoExc

\* C7, amended: no failure leaves chat unconverted: a request ends either by
\* returning a reply or, for every failure of an oracle or an internal step,
\* by raising HTTPException with status 500 whose detail is the text of the
\* failure, which has been logged; the HTTPException is what the caller gets.
C7_FailuresBecomeHttp500 ==
    last.branch # "none" =>
        \/ /\ last.status_code = 200
           /\ last.raised = NoExc
           /\ last.logged = NoExc
           /\ last.response # None
        \/ /\ last.status_code = 500
           /\ last.logged # NoExc
           /\ last.raised = [type |-> "HTTPException", msg |-> last.logged.msg]
           /\ last.response = None

\* C7 happens: the attestation oracle failed and chat raised HTTPException.
C7_Witness ==
    /\ last.branch = "attestation"
    /\ last.logged.type = "VtpmAttestationError"
    /\ last.posted = 1
    /\ last.raised.type = "HTTPException"
    /\ last.status_code = 500

\* C8 as stated: the store, the flag and the account belong to a session: a
\* client's message confirms only a transaction its own message previewed, is
\* consumed as the nonce only of an attestation it requested, and its "/reset"
\* clears only entries and an account its own messages made.
C8_SessionsIndependent ==
    /\ last.branch = "confirm" =>
          last.client = last.pre.owner.tx[Len(last.pre.owner.tx)]
    /\ last.branch = "attestation" => last.client = last.pre.owner.flag
    /\ (last.branch = "command" /\ last.message = ResetCommand) =>
          /\ \A i \in 1..Len(last.pre.owner.tx) : last.pre.owner.tx[i] = last.client
          /\ last.pre.owner.account \in {"none", last.client}

\* C9 as stated: after the preview of T for message M, M again leaves the
\* store empty and returns a reply with the transaction identifier.
C9_ConfirmEmptiesStore ==
    (last.branch = "confirm" /\ last.pre.after_preview /\ last.status_code = 200) =>
        /\ tx_queue = <<>>
        /\ last.response = ConfirmationOf(last.receipts[1])

\* C9, amended: after the preview of T for message M (whatever was pending
\* before), M again hands T to the chain oracle and, once the oracle returned
\* the identifier, takes T and only T out of the store: what was pending
\* before the preview is still pending, so the store is empty exactly when
\* nothing else was pending; the reply, when the completion answers, is built
\* from the identifier.
C9_ConfirmRemovesPreviewed ==
    (last.branch = "confirm" /\ last.pre.after_preview) =>
        LET pending == last.pre.tx_queue
            T == pending[Len(pending)]
        IN /\ last.message = T.msg
           /\ last.chain_sent = <<T.tx>>
           /\ last.receipts # <<>> =>
                 /\ tx_queue = SubSeq(pending, 1, Len(pending) - 1)
                 /\ (tx_queue = <<>>) <=> (Len(pending) = 1)
           /\ last.status_code = 200 =>
                 /\ last.receipts = <<TxHash(T.tx)>>
                 /\ last.response = ConfirmationOf(TxHash(T.tx))

\* C9 happens: the message just previewed was confirmed while an older entry
\* was pending, and that entry is still there.
C9_Witness ==
    /\ last.branch = "confirm"
    /\ last.pre.after_preview
    /\ last.status_code = 200
    /\ Len(last.pre.tx_queue) = 2
    /\ tx_queue = <<last.pre.tx_queue[1]>>

\* C10 as stated: once a message has been consumed as the nonce the flag is
\* false, whether get_token returned a token, failed in transport or rejected
\* the nonce.
C10_FlagClearedAfterNonce ==
    last.branch = "attestation" => ~attestation_requested

\* C11: "/reset" on a session that holds pending transactions and an account
\* answers "Reset completed", leaves the store empty, the address and the
\* key cleared, and the attestation flag as it was, set or not.
C11_ResetClearsAccountAndStore ==
    (/\ last.branch # "none"
     /\ last.message = ResetCommand
     /\ last.pre.tx_queue # <<>>
     /\ Truthy(last.pre.address)
     /\ Truthy(last.pre.private_key)) =>
        /\ last.status_code = 200
        /\ last.response = Fixed(<<"Reset completed">>)
        /\ tx_queue = <<>>
        /\ address = None
        /\ private_key = None
        /\ attestation_requested = last.pre.attestation_requested

\* C11 happens: "/reset" met two pending transactions, an account and a set
\* flag, and the flag is still set.
C11_Witness ==
    /\ last.message = ResetCommand
    /\ last.status_code = 200
    /\ Len(last.pre.tx_queue) = 2
    /\ Truthy(last.pre.private_key)
    /\ last.pre.attestation_requested
    /\ attestation_requested
    /\ tx_queue = <<>>
    /\ private_key = None

\* The address a reply of handle_generate_account shows: the one after
\* "Account exists - ", or the one substituted into the prompt the reply was
\* generated from.
AddressShown(response) ==
    IF response.kind = "account_exists" THEN response.body
    ELSE response.body[2].body

\* C12: of two consecutive messages classified GenerateAccount, the second
\* never creates a key pair and answers with the stored address; the first
\* created one exactly when there was no account, so the key pair of the
\* account is created once; the first reply, when the completion produced
\* it, shows the same address, and when the completion failed the account it
\* created is kept and is the one the second reply shows.
C12_AccountIdempotent ==
    (last.route = GENERATE_ACCOUNT /\ last.pre.before.route = GENERATE_ACCOUNT) =>
        LET first == last.pre.before
        IN /\ Truthy(last.pre.address)
           /\ last.status_code = 200
           /\ last.gen_calls = 1
           /\ last.response = [kind |-> "account_exists", body |-> last.pre.address]
           /\ address = last.pre.address
           /\ private_key = last.pre.private_key
           /\ created = last.pre.created
           /\ created = first.created + (IF Truthy(first.address) THEN 0 ELSE 1)
           /\ first.status_code = 200 => AddressShown(first.response) = address
           /\ first.status_code = 500 => ~Truthy(first.address)

\* C12 happens: the completion failed on the reply to the first message, the
\* second answered with the address of the account the first had created.
C12_Witness ==
    /\ last.route = GENERATE_ACCOUNT
    /\ last.pre.before.route = GENERATE_ACCOUNT
    /\ last.pre.before.status_code = 500
    /\ last.pre.before.address = None
    /\ last.response = [kind |-> "account_exists", body |-> AddressOf(1)]
    /\ created = 1

\* The model's structured result for the last message was rejected by the
\* send handler's validation: not two fields, or an amount of 0.0.
ExtractionRejected ==
    /\ last.route = SEND_TOKEN
    /\ Len(last.extracted) = 1
    /\ \/ Cardinality(DOMAIN last.extracted[1]) # expected_json_len
       \/ get(last.extracted[1], "amount") = Float(0)

\* C13 as stated: when the structured result for a send message has a number
\* of fields other than 2 or an amount of 0.0, the handler answers with the
\* generated follow-up text, not an error, and the store is as long as before.
C13_ExtractionFailureFollowUp ==
    ExtractionRejected =>
        /\ last.status_code = 200
        /\ last.response.kind = "generated"
        /\ Len(tx_queue) = Len(last.pre.tx_queue)

\* The model's structured result for the last message passed the send
\* handler's validation.
ExtractionAccepted ==
    /\ last.route = SEND_TOKEN
    /\ Len(last.extracted) = 1
    /\ ~ExtractionRejected

\* C14: when the structured result passes the validation and the transfer
\* is built, the send handler appends exactly one entry, made of the handled
\* message and the built transaction (from the session's address, to the
\* extracted address, the extracted amount in wei), after the entries already
\* pending, which stay as they were, and answers with the preview of that
\* transaction; when building fails nothing is appended.
C14_SendAppendsOneEntry ==
    ExtractionAccepted =>
        LET send_token_json == last.extracted[1]
            tx == [from |-> address,
                   to |-> get(send_token_json, "to_address"),
                   value |-> to_wei(get(send_token_json, "amount"))]
        IN IF last.status_code = 200
           THEN /\ Truthy(address)
                /\ tx_queue = Append(last.pre.tx_queue,
                                     [msg |-> last.message, tx |-> tx])
                /\ last.response = formatted_preview(tx)
                /\ last.chain_sent = <<>>
           ELSE tx_queue = last.pre.tx_queue

\* C14 happens: a second, different entry was appended behind a pending one.
C14_Witness ==
    /\ ExtractionAccepted
    /\ last.status_code = 200
    /\ Len(last.pre.tx_queue) = 1
    /\ Len(tx_queue) = 2
    /\ tx_queue[1] = last.pre.tx_queue[1]
    /\ tx_queue[2].msg = last.message
    /\ tx_queue[2] # tx_queue[1]

\* C15: when the completion fails during classification (the call raises or
\* its response has no text) or answers with a text that is no label of the
\* enumeration, get_semantic_route returns Conversational after that single
\* call: handle_conversation, and no other handler, runs on the message, no
\* state changes, and the request ends in error only if the completion of
\* handle_conversation itself, the second call, fails.
C15_ClassificationFailsOpen ==
    last.routing_failed =>
        /\ last.branch = "route"
        /\ last.classified = 1
        /\ last.route = CONVERSATIONAL
        /\ last.handlers = <<"handle_conversation">>
        /\ last.gen_calls = 2
        /\ last.status_code = 200 => last.response = Generated(last.message)
        /\ last.status_code = 500 => last.logged.msg \in OracleFailures
        /\ tx_queue = last.pre.tx_queue
        /\ address = last.pre.address
        /\ attestation_requested = last.pre.attestation_requested

\* C15 happens: classification failed and the message was answered as
\* conversation.
C15_Witness ==
    /\ last.routing_failed
    /\ last.route = CONVERSATIONAL
    /\ last.status_code = 200
    /\ last.response = Generated(SendMsg)

\* The calls the last request made while classifying, and those that failed
\* (the call raised, or the completion came back without a usable text).
ClassifyingCalls == {i \in DOMAIN last.calls : last.calls[i].classifying}

FailedCalls == {i \in DOMAIN last.calls : last.calls[i].outcome # "ok"}

\* C16 as stated: a classification makes exactly one completion call, and a
\* failed oracle call is the last call of the request, which ends there with
\* the error.
C16_FailureEndsHandling ==
    /\ last.classified = 1 => Cardinality(ClassifyingCalls) = 1
    /\ \A i \in FailedCalls : i = Len(last.calls) /\ last.status_code = 500

\* C16, amended: a classification makes exactly one completion call, the
\* first call of the request; no request makes a call after a failed call of
\* a branch or handler (chain, attestation, completion), which ends the
\* request at once with the error; a failed classification call is not made
\* again either, but does not end the request: the message is taken as
\* Conversational and handle_conversation makes its own, single, completion
\* call.
C16_NoRetries ==
    /\ last.classified = 1 =>
          /\ ClassifyingCalls = {1}
          /\ last.calls[1].oracle = "completion"
    /\ last.classified = 0 => ClassifyingCalls = {}
    /\ \A i \in FailedCalls :
          IF last.calls[i].classifying
          THEN /\ last.routing_failed
               /\ last.handlers = <<"handle_conversation">>
               /\ Len(last.calls) = 2
               /\ last.calls[2].oracle = "completion"
          ELSE /\ i = Len(last.calls)
               /\ last.status_code = 500

\* C16 happens: the classification call failed, one more completion call
\* answered the message as conversation.
C16_Witness ==
    /\ Len(last.calls) = 2
    /\ last.calls[1] = [oracle |-> "completion", classifying |-> TRUE, outcome |-> "raise"]
    /\ last.calls[2] = [oracle |-> "completion", classifying |-> FALSE, outcome |-> "ok"]
    /\ last.status_code = 200

\* C17: handling a message classified RequestAttestation, the flag is set
\* exactly when the handler's completion call returned: with a usable text
\* (the reply), and also with a response whose text cannot be read, where the
\* request ends in error with the flag set; when the call raises the flag
\* stays as it was, not set.
C17_FlagSetOnceCallReturns ==
    last.route = REQUEST_ATTESTATION =>
        /\ ~last.pre.attestation_requested
        /\ last.handlers = <<"handle_attestation">>
        /\ Len(last.calls) = 2
        /\ last.calls[2].oracle = "completion"
        /\ attestation_requested <=> last.calls[2].outcome # "raise"
        /\ last.status_code = 200 <=> last.calls[2].outcome = "ok"
        /\ last.status_code = 200 => last.response = Generated(REMOTE_ATTESTATION)

\* C17 happens: the completion returned a response without a usable text;
\* the request failed and the flag is set.
C17_Witness ==
    /\ last.route = REQUEST_ATTESTATION
    /\ last.calls[2].outcome = "notext"
    /\ last.status_code = 500
    /\ last.logged.msg = <<"response.text">>
    /\ attestation_requested

\* C18: a request changes the flag from false to true only when its message
\* was classified RequestAttestation and handle_attestation ran, and from
\* true to false only when it passed its message to get_token as the nonce;
\* commands ("/reset" too), confirmations and the four other handlers leave
\* the flag as they found it; and while the flag is set no message is
\* classified, so no second attestation request is started.
C18_FlagChangesOnlyByAttestation ==
    last.branch # "none" =>
        /\ (~last.pre.attestation_requested /\ attestation_requested) =>
              /\ last.route = REQUEST_ATTESTATION
              /\ last.handlers = <<"handle_attestation">>
        /\ (last.pre.attestation_requested /\ ~attestation_requested) =>
              /\ last.branch = "attestation"
              /\ last.nonces = << <<last.message>> >>
        /\ (\/ last.branch \in {"command", "confirm"}
            \/ last.route \in SemanticRouterResponse \ {REQUEST_ATTESTATION}) =>
              attestation_requested = last.pre.attestation_requested
        /\ last.pre.attestation_requested =>
              /\ last.classified = 0
              /\ last.route = "none"

\* C18 happens: the flag went from false to true on a message classified
\* RequestAttestation.
C18_Witness ==
    /\ last.route = REQUEST_ATTESTATION
    /\ last.handlers = <<"handle_attestation">>
    /\ ~last.pre.attestation_requested
    /\ attestation_requested

\* get_token rejected the call before anything was sent.
NonceRejected ==
    /\ last.raised = [type |-> "VtpmAttestationError",
                      msg |-> <<"Nonce must be between">>]
    /\ last.posted = 0
    /\ last.calls = <<>>
    /\ last.response = None

\* C19: get_token(nonces) raises the validation error, sending nothing to
\* the attestation service, exactly when some nonce of the list is shorter
\* than 10 or longer than 74 bytes of UTF-8, however many characters that
\* is and whatever the other nonces are; otherwise the request is sent (or
\* the simulated token returned).  9 and 75 bytes are rejected, 10 and 74
\* accepted.
C19_NonceByteLength ==
    last.branch = "get_token" =>
        LET nonces == last.nonces[1]
        IN /\ Len(last.nonces) = 1
           /\ NonceRejected <=>
                 \E i \in DOMAIN nonces :
                     utf8_len(nonces[i]) < 10 \/ utf8_len(nonces[i]) > 74
           /\ ~NonceRejected =>
                 IF simulate
                 THEN last.posted = 0 /\ last.response = SIM_TOKEN
                 ELSE /\ last.posted = 1
                      /\ last.raised = NoExc => last.response = TokenFor(nonces)
           /\ nonces \in {<<Ascii(9)>>, <<Ascii(75)>>, <<Accented(74)>>,
                          <<Ascii(10), Ascii(9)>>, <<Ascii(75), Ascii(74)>>}
                 => NonceRejected
           /\ nonces \in {<<Ascii(10)>>, <<Ascii(74)>>, <<Accented(9)>>,
                          <<Ascii(10), Ascii(74)>>}
                 => ~NonceRejected

\* C19 happens: a list of a valid nonce and one of 74 characters but 75
\* bytes was rejected with nothing sent.
C19_Witness ==
    /\ last.branch = "get_token"
    /\ last.nonces = << <<Ascii(10), Accented(74)>> >>
    /\ NonceRejected

\* C20 as stated: only the last entry is ever confirmed, and an entry behind
\* which a newer entry was appended is never confirmed and submitted in any
\* later state.
C20_BuriedNeverConfirmed ==
    (last.branch = "confirm" /\ last.chain_sent # <<>>) =>
        /\ last.message = last.pre.tx_queue[Len(last.pre.tx_queue)].msg
        /\ last.chain_sent = <<last.pre.tx_queue[Len(last.pre.tx_queue)].tx>>
        /\ ~last.pre.owner.buried[Len(last.pre.tx_queue)]

\* C20, amended: a confirmation is matched against the last entry only and
\* submits and removes that entry only, so an entry cannot be confirmed
\* while a newer entry is pending behind it: every request other than
\* "/reset" leaves the entries before the last one in place.  The entry is
\* not lost for good: once the newer entries have been confirmed it is the
\* last entry again and its message confirms it.
C20_OnlyLastEntryConfirmable ==
    /\ last.branch = "confirm" =>
          /\ last.message = last.pre.tx_queue[Len(last.pre.tx_queue)].msg
          /\ last.chain_sent = <<last.pre.tx_queue[Len(last.pre.tx_queue)].tx>>
          /\ tx_queue \in {last.pre.tx_queue,
                           SubSeq(last.pre.tx_queue, 1, Len(last.pre.tx_queue) - 1)}
    /\ last.branch # "confirm" => last.chain_sent = <<>>
    /\ (last.branch # "none" /\ last.message # ResetCommand) =>
          /\ Len(tx_queue) >= Len(last.pre.tx_queue) - 1
          /\ \A i \in 1..(Len(last.pre.tx_queue) - 1) :
                tx_queue[i] = last.pre.tx_queue[i]

\* C20 happens: an entry that had a newer entry behind it was confirmed and
\* submitted after the newer one had been confirmed.
C20_Witness ==
    /\ last.branch = "confirm"
    /\ last.status_code = 200
    /\ last.pre.owner.buried[Len(last.pre.tx_queue)]
    /\ last.receipts = <<TxHash(last.pre.tx_queue[Len(last.pre.tx_queue)].tx)>>
    /\ Len(tx_queue) = Len(last.pre.tx_queue) - 1

\* The entries of the store the last request found that are still in the
\* store, at the same place and unchanged.
Kept == {i \in DOMAIN last.pre.tx_queue :
            i <= Len(tx_queue) /\ tx_queue[i] = last.pre.tx_queue[i]}

\* C21 as stated: an entry of the store is never changed in place and
\* leaves the store only when a message equal to its own triggering message
\* confirmed it and it was submitted; no other operation removes an entry.
C21_OnlyConfirmationRemoves ==
    \A i \in DOMAIN last.pre.tx_queue :
        \/ i \in Kept
        \/ /\ i = Len(last.pre.tx_queue)
           /\ Len(tx_queue) = i - 1
           /\ last.branch = "confirm"
           /\ last.message = last.pre.tx_queue[i].msg
           /\ last.receipts = <<TxHash(last.pre.tx_queue[i].tx)>>

\* C21, amended: an entry of the store is never changed in place; it leaves
\* the store when a message equal to its own triggering message confirmed it
\* while it was the last entry and the chain oracle returned the identifier
\* (also when the reply could then not be generated), and when "/reset"
\* empties the store, which removes every entry; no other operation removes
\* an entry, and an operation that adds an entry puts it behind the others.
C21_OnlyConfirmationOrResetRemoves ==
    /\ \A i \in DOMAIN last.pre.tx_queue :
          \/ i \in Kept
          \/ /\ i = Len(last.pre.tx_queue)
             /\ Len(tx_queue) = i - 1
             /\ last.branch = "confirm"
             /\ last.message = last.pre.tx_queue[i].msg
             /\ last.receipts = <<TxHash(last.pre.tx_queue[i].tx)>>
          \/ /\ last.branch = "command"
             /\ last.message = ResetCommand
             /\ tx_queue = <<>>
    /\ (last.branch = "confirm" /\ last.receipts # <<>>) =>
          Len(tx_queue) = Len(last.pre.tx_queue) - 1
    /\ Len(tx_queue) <= Len(last.pre.tx_queue) + 1

\* C21 happens: the last of two entries was confirmed and submitted, the
\* reply could not be generated, and the older entry is still there.
C21_Witness ==
    /\ last.branch = "confirm"
    /\ last.status_code = 500
    /\ last.receipts # <<>>
    /\ Len(last.pre.tx_queue) = 2
    /\ Kept = {1}
    /\ Len(tx_queue) = 1

\* C22: when the chain oracle fails while the confirmed transaction is
\* signed and sent (the broadcast fails, or the wait for the receipt does),
\* the request ends in error with that failure and nothing has changed: the
\* store holds the same entries in the same order, the confirmed one
\* included, the account and the flag are as before, no completion was
\* requested; and the same message is a confirmation again: sent once more
\* with the oracle working, the same transaction is submitted.
C22_ChainFailureKeepsState ==
    (last.branch = "confirm" /\ last.receipts = <<>>) =>
        /\ last.status_code = 500
        /\ last.logged.msg \in {<<"send_raw_transaction">>,
                                <<"wait_for_transaction_receipt">>}
        /\ last.calls # <<>>
        /\ \A i \in DOMAIN last.calls : last.calls[i].oracle = "chain"
        /\ last.calls[Len(last.calls)].outcome = "failed"
        /\ last.gen_calls = 0
        /\ tx_queue = last.pre.tx_queue
        /\ address = last.pre.address
        /\ private_key = last.pre.private_key
        /\ created = last.pre.created
        /\ attestation_requested = last.pre.attestation_requested
        /\ \E again \in {chat(NewRequest, last.message, Calm)} :
              /\ again.branch = "confirm"
              /\ again.chain_sent = last.chain_sent
              /\ again.status_code = 200
              /\ again.tx_queue = SubSeq(tx_queue, 1, Len(tx_queue) - 1)

\* C22 happens: the wait for the receipt failed on the last of two entries
\* while the flag was set; both entries are still pending.
C22_Witness ==
    /\ last.branch = "confirm"
    /\ last.broadcast # <<>>
    /\ last.receipts = <<>>
    /\ last.logged.type = "TimeExhausted"
    /\ last.pre.attestation_requested
    /\ Len(tx_queue) = 2
    /\ tx_queue = last.pre.tx_queue

\* C23: handling a message classified SendToken in a session without an
\* account, handle_send_token first runs handle_generate_account, whose
\* completion is the first call after the classification: a key pair is
\* created, once, and the session has its address and key afterwards,
\* whether the transaction was previewed, the extraction was rejected or
\* failed, or the request ended in error (then nothing was appended); in a
\* session with an account the address and the key are left as they were
\* and no key pair is created.
C23_SendCreatesMissingAccount ==
    last.route = SEND_TOKEN =>
        IF Truthy(last.pre.address)
        THEN /\ address = last.pre.address
             /\ private_key = last.pre.private_key
             /\ created = last.pre.created
             /\ last.handlers = <<"handle_send_token">>
        ELSE /\ created = last.pre.created + 1
             /\ address = AddressOf(created)
             /\ private_key = KeyOf(created)
             /\ last.handlers = <<"handle_send_token", "handle_generate_account">>
             /\ Len(last.calls) >= 2
             /\ last.extracted # <<>> =>
                   /\ Len(last.calls) >= 3
                   /\ last.calls[2].outcome = "ok"
             /\ ~last.appended => tx_queue = last.pre.tx_queue

\* C23 happens: the session had no account, the extracted result was
\* rejected and nothing was appended, and the session has an account now.
C23_Witness ==
    /\ ExtractionRejected
    /\ last.pre.address = None
    /\ last.pre.private_key = None
    /\ ~last.appended
    /\ tx_queue = last.pre.tx_queue
    /\ address = AddressOf(1)
    /\ private_key = KeyOf(1)

\* C24: a message classified SwapToken gets the fixed reply "Sorry I can't
\* do that right now", whatever the message and the state: handle_swap_token
\* alone runs, the classification is the only oracle call of the request,
\* nothing is sent to the chain or the attestation service, and the store,
\* the account and the flag are as before.
C24_SwapIsStub ==
    last.route = SWAP_TOKEN =>
        /\ last.status_code = 200
        /\ last.response = Fixed(<<"Sorry I can't do that right now">>)
        /\ last.handlers = <<"handle_swap_token">>
        /\ last.calls = <<[oracle |-> "completion", classifying |-> TRUE,
                           outcome |-> "ok"]>>
        /\ last.gen_calls = 1
        /\ last.chain_sent = <<>>
        /\ last.nonces = <<>>
        /\ last.posted = 0
        /\ tx_queue = last.pre.tx_queue
        /\ address = last.pre.address
        /\ private_key = last.pre.private_key
        /\ created = last.pre.created
        /\ attestation_requested = last.pre.attestation_requested

\* C24 happens: a swap was asked for in a session with two pending
\* transactions; it got the fixed reply and both are still pending.
C24_Witness ==
    /\ last.route = SWAP_TOKEN
    /\ last.message = SendMsgCase
    /\ Len(last.pre.tx_queue) = 2
    /\ tx_queue = last.pre.tx_queue
    /\ last.response = Fixed(<<"Sorry I can't do that right now">>)

\* The word the preview names.
ConfirmWord == <<"C", "O", "N", "F", "I", "R", "M">>

\* What a user who does what the preview says sends next.
Instructed(preview) ==
    IF preview.body[3] = <<"Type CONFIRM to proceed.">> THEN ConfirmWord
    ELSE None

\* C25 as stated: after a preview, the message the preview tells the user
\* to send is taken by the router as the confirmation: sent next, it has
\* the previewed transaction submitted.
C25_PreviewInstructionConfirms ==
    (last.appended /\ last.status_code = 200 /\ last.response.kind = "preview") =>
        \E next \in {chat(NewRequest, Instructed(last.response), Calm)} :
           /\ next.branch = "confirm"
           /\ next.chain_sent = <<tx_queue[Len(tx_queue)].tx>>

\* The methods of Flare that need an account.
NeedAccount == {"create_send_flr_tx", "check_balance", "sign_and_send_transaction"}

\* C26: create_send_flr_tx, check_balance and sign_and_send_transaction
\* called on a service without an account raise ValueError ("Account does
\* not exist", "Account not initialized" for signing) whatever their
\* arguments and whatever the chain would answer: nothing is asked of the
\* chain, nothing is signed or sent, and the address, the key and the store
\* are as before.
C26_MissingAccountRaisesFirst ==
    (last.branch \in NeedAccount /\ ~Truthy(last.pre.address)) =>
        /\ last.raised =
              [type |-> "ValueError",
               msg |-> IF last.branch = "sign_and_send_transaction"
                       THEN <<"Account not initialized">>
                       ELSE <<"Account does not exist">>]
        /\ last.response = None
        /\ last.calls = <<>>
        /\ last.chain_sent = <<>>
        /\ last.broadcast = <<>>
        /\ address = None
        /\ private_key = None
        /\ tx_queue = last.pre.tx_queue
        /\ created = last.pre.created

\* C26 happens: a transaction was to be signed and sent on a service whose
\* account had been reset and whose store holds an entry added since.
C26_Witness ==
    /\ last.branch = "sign_and_send_transaction"
    /\ last.pre.address = None
    /\ last.pre.created = 1
    /\ last.pre.tx_queue # <<>>
    /\ last.raised.type = "ValueError"
    /\ tx_queue = last.pre.tx_queue

\* C28: generate_account creates one key pair, stores its key and its
\* checksum address, which starts with "0x", on the service and returns the
\* address it stored; it does so on a service that has an account too,
\* whose key and address the new ones replace; the store is left alone.
C28_GenerateAccountStoresPair ==
    last.branch = "generate_account" =>
        /\ last.raised = NoExc
        /\ created = last.pre.created + 1
        /\ Truthy(address)
        /\ Truthy(private_key)
        /\ address = AddressOf(created)
        /\ private_key = KeyOf(created)
        /\ last.response = address
        /\ startswith(last.response, <<"0x">>)
        /\ address # last.pre.address
        /\ private_key # last.pre.private_key
        /\ last.calls = <<>>
        /\ tx_queue = last.pre.tx_queue

\* C28 happens: a second account was generated on a service that had one
\* and a pending entry.
C28_Witness ==
    /\ last.branch = "generate_account"
    /\ last.pre.address = AddressOf(1)
    /\ last.response = AddressOf(2)
    /\ address = AddressOf(2)
    /\ private_key = KeyOf(2)
    /\ tx_queue # <<>>

\* C27 as stated: in chat of app.py a message starting with "/", "/reset" or
\* not, is a command: it is not passed to the confirmation of a pending
\* transaction, nor to get_token as a nonce, nor to the classification.
C27_AppCommandsStopAtCommand ==
    (last.branch # "none" /\ startswith(last.message, Slash)) =>
        /\ last.branch = "command"
        /\ last.handlers = <<>>
        /\ last.nonces = <<>>
        /\ last.classified = 0
        /\ last.gen_calls = 0

\* C29 as stated: in chat of app.py, with RA_QUEUE not empty, the message
\* that reaches the attestation stage is passed to get_token as the nonce
\* and RA_QUEUE is empty afterwards, whether get_token returned a token or
\* raised.
C29_AppQueueClearedAfterNonce ==
    last.branch = "attestation" =>
        /\ last.pre.RA_QUEUE # <<>>
        /\ last.nonces = << <<last.message>> >>
        /\ RA_QUEUE = <<>>

\* C30 as stated: in handle_send_token of app.py, when the extracted JSON
\* has a length other than 2 or an amount of 0.0, the reply is the text the
\* model generates from the follow_up_token_send prompt, not one starting
\* with "Error creating transaction", and nothing is added to tx_queue.
C30_AppExtractionFailureFollowUp ==
    ExtractionRejected =>
        /\ last.status_code = 200
        /\ last.response =
              Generated(library_prompts["follow_up_token_send"].template)
        /\ tx_queue = last.pre.tx_queue

\* ------------------------------------------------------------- Prompt.format, direct
\* The prompt service and the prompt library of models/ called directly: any
\* prompt name with any choice of keyword arguments.
\* The names of the placeholders of the templates.
InputNames == {"user_input", "address", "tx_hash", "block_explorer"}

\* The value a caller passes for an input.
InputValue(name) ==
    IF name = "user_input" THEN SendMsg
    ELSE IF name = "address" THEN AddressOf(1)
    ELSE IF name = "tx_hash" THEN TxHash(1)
    ELSE web3_explorer_url

\* The keyword arguments of a call: any of the inputs, the others left out.
KeywordArguments ==
    {[name \in given |-> InputValue(name)] : given \in SUBSET InputNames}

\* The names a caller asks for: those of both libraries and one of neither.
PromptNames == DOMAIN default_prompts \cup DOMAIN library_prompts \cup {"unknown"}

\* The call took place; the services are as they were.
Formatted(name, kwargs, y) ==
    /\ last' = Observed("none", [prompt_name |-> name, kwargs |-> kwargs], y)
    /\ UNCHANGED <<address, private_key, tx_queue, attestation_requested, simulate,
                   created, owner, RA_QUEUE, gemini, inflight>>

\* PromptService.get_formatted_prompt(name, **kwargs)
GetFormattedPrompt(name, kwargs) ==
    Formatted(name, kwargs,
              get_formatted_prompt(On("get_formatted_prompt"), name, kwargs))

\* LIBRARY.get_prompt(name).format(**kwargs), as app.py calls it.
LibraryFormat(name, kwargs) ==
    Formatted(name, kwargs,
              Then(get_prompt(On("format"), name),
                   LAMBDA p : prompt_format(p, p.value, kwargs)))

NextFormat ==
    \E name \in PromptNames, kwargs \in KeywordArguments :
        \/ GetFormattedPrompt(name, kwargs)
        \/ LibraryFormat(name, kwargs)

SpecFormat == Init /\ [][NextFormat]_vars

\* The prompt the last call formatted, when the library it asked has it.
FormattedPrompt ==
    IF last.branch = "get_formatted_prompt"
    THEN get(default_prompts, last.message.prompt_name)
    ELSE get(library_prompts, last.message.prompt_name)

\* The last call was a format of a prompt with required inputs of which one
\* was not supplied.
MissingRequiredInput ==
    /\ last.branch \in {"get_formatted_prompt", "format"}
    /\ FormattedPrompt # None
    /\ FormattedPrompt.required_inputs \ DOMAIN last.message.kwargs # {}

\* The placeholders left in a formatted template.
Unsubstituted(formatted) ==
    {formatted[i].body : i \in {j \in 1..Len(formatted) : formatted[j].kind = "var"}}

\* C31: Prompt.format of a prompt with required inputs, called without one of
\* them, raises ValueError "Missing required inputs" and returns no prompt
\* that still holds the placeholder of a required input.
C31_MissingInputRaises ==
    MissingRequiredInput =>
        /\ last.raised.type = "ValueError"
        /\ last.raised.msg = <<"Missing required inputs">>
        /\ (last.raised.type = "none" =>
               Unsubstituted(last.response) \cap FormattedPrompt.required_inputs = {})

\* ------------------------------------------------------------- Gemini, direct
\* The two clients of the completion model used directly: reset and
\* send_message in any order; generate keeps no conversation and changes
\* neither of them.
\* Longest history of a chat session the model lets send_message build.
MaxHistory == 5

\* The call took the client `name` to s.
Told(name, s) ==
    /\ Len(s.chat.history) <= MaxHistory
    /\ gemini' = [gemini EXCEPT ![name] = s]
    /\ UNCHANGED <<address, private_key, tx_queue, attestation_requested, simulate,
                   created, owner, RA_QUEUE, inflight, last>>

ProviderReset == Told("provider", provider_reset(gemini.provider))

ProviderSendMessage ==
    \E msg \in {SendMsg, ShortMsg}, g \in {"ok", "raise"} :
        Told("provider", send_message(gemini.provider, msg, g))

GeminiReset == Told("service", gemini_reset(gemini.service))

GeminiSendMessage ==
    \E msg \in {SendMsg, ShortMsg}, g \in {"ok", "raise"} :
        Told("service", send_message(gemini.service, msg, g))

NextGemini ==
    \/ ProviderReset
    \/ ProviderSendMessage
    \/ GeminiReset
    \/ GeminiSendMessage

SpecGemini == Init /\ [][NextGemini]_vars

\* C32: for both clients, GeminiProvider and Gemini, the send_message that
\* follows a reset starts a new chat session from an empty history and does
\* not continue the session that existed before the reset.
C32_ResetStartsNewChat ==
    \A name \in {"provider", "service"} :
        gemini[name].sent.after_reset =>
            /\ gemini[name].sent.started
            /\ gemini[name].sent.continued = <<>>

\* C33 as stated: once a confirmation has broadcast the pending transaction,
\* its entry is out of the store, also when the wait for the receipt or the
\* generation of the reply failed afterwards, so that no later confirmation
\* broadcasts it a second time.
C33_BroadcastRemovesEntry ==
    (last.branch = "confirm" /\ last.broadcast # <<>>) =>
        tx_queue = SubSeq(last.pre.tx_queue, 1, Len(last.pre.tx_queue) - 1)

\* C33, amended: a confirmation broadcasts the last entry's transaction and
\* no other, once.  When the receipt came back the entry is out of the
\* store, also when the reply could then not be generated, and no later
\* confirmation can broadcast it again.  When the wait for the receipt
\* failed after the broadcast the entry stays pending like after any chain
\* failure, and the same message sent again broadcasts it a second time.
C33_CompletedSubmissionRemovesEntry ==
    (last.branch = "confirm" /\ last.broadcast # <<>>) =>
        /\ last.broadcast = <<last.pre.tx_queue[Len(last.pre.tx_queue)].tx>>
        /\ IF last.receipts # <<>>
           THEN tx_queue = SubSeq(last.pre.tx_queue, 1, Len(last.pre.tx_queue) - 1)
           ELSE /\ last.logged.type = "TimeExhausted"
                /\ tx_queue = last.pre.tx_queue
                /\ \E again \in {chat(NewRequest, last.message, Calm)} :
                      again.broadcast = last.broadcast

\* C33 happens: the only pending transaction was broadcast and its receipt
\* came back, the completion of the reply had no text, and the store is
\* empty.
C33_Witness ==
    /\ last.branch = "confirm"
    /\ last.broadcast # <<>>
    /\ last.receipts # <<>>
    /\ last.status_code = 500
    /\ last.logged.msg = <<"response.text">>
    /\ Len(last.pre.tx_queue) = 1
    /\ tx_queue = <<>>

\* C34: in every state the chat router reaches, a store that is not empty
\* comes with an address and a private key, and every transaction in it was
\* built with the session's current address as its sender; so a
\* confirmation never fails with "Account not initialized", and what it
\* signs is a transaction of the current account.
C34_PendingImpliesAccount ==
    /\ tx_queue # <<>> =>
          /\ Truthy(address)
          /\ Truthy(private_key)
          /\ \A i \in DOMAIN tx_queue : tx_queue[i].tx.from = address
    /\ last.branch = "confirm" =>
          /\ last.logged.msg # <<"Account not initialized">>
          /\ last.chain_sent # <<>>
          /\ \A i \in DOMAIN last.chain_sent :
                last.chain_sent[i].from = last.pre.address
          /\ address = last.pre.address

\* C34 happens: a first account was discarded by "/reset"; with the second
\* one two transactions were queued, the last of them has just been
\* confirmed and the other one is pending, built with the second address.
C34_Witness ==
    /\ last.branch = "confirm"
    /\ last.status_code = 200
    /\ created = 2
    /\ address = AddressOf(2)
    /\ Len(tx_queue) = 1
    /\ tx_queue[1].tx.from = AddressOf(2)

\* ------------------------------------------------------------- concurrent requests
\* Requests that arrive while others wait for their handler.  chat is a
\* coroutine of the one event loop; it awaits only coroutines of the router,
\* which call the services synchronously, so it has no suspension point:
\* the loop runs the handler of one request from its first line to its
\* return before it starts the next, in any order of the waiting requests.
\* Most requests that wait for their handler at once.
MaxInflight == 2

\* A request of client c with message m reaches the endpoint.
Arrive(c, m) ==
    /\ Len(inflight) < MaxInflight
    /\ inflight' = Append(inflight, [client |-> c, message |-> m])
    /\ UNCHANGED <<address, private_key, tx_queue, attestation_requested, simulate,
                   created, owner, RA_QUEUE, gemini, last>>

\* The event loop runs the handler of the i-th waiting request.
Serve(i) == Request(inflight[i].client, {inflight[i].message})

\* The messages of the requests that overlap: two requests to send and a
\* command.
ConcurrentMessages == {HelpCommand, SendMsg, ShortMsg}

NextConcurrent ==
    \/ \E m \in ConcurrentMessages : Arrive("A", m)
    \/ \E i \in DOMAIN inflight : Serve(i)

SpecConcurrent == Init /\ [][NextConcurrent]_vars

\* The request handled last is the second of two requests with the same
\* message that were in flight together while exactly one pending
\* transaction, the last one, had that message as its triggering message;
\* the first of the two was handled just before it.
SecondOfTwo ==
    /\ last.pre.prior.message # None
    /\ last.message = last.pre.prior.message

\* The transaction the two requests are about.
TheirTx == last.pre.prior.tx_queue[Len(last.pre.prior.tx_queue)].tx

\* The second request submitted no other transaction and took no other entry
\* out of the store than the one the two requests are about.
NoOlderEntryTouched ==
    /\ \A i \in DOMAIN last.chain_sent : last.chain_sent[i] = TheirTx
    /\ Len(tx_queue) < Len(last.pre.tx_queue) =>
          /\ last.pre.tx_queue = last.pre.prior.tx_queue
          /\ tx_queue = SubSeq(last.pre.tx_queue, 1, Len(last.pre.tx_queue) - 1)
    /\ \A i \in 1..(Len(last.pre.prior.tx_queue) - 1) :
          /\ i <= Len(tx_queue)
          /\ tx_queue[i] = last.pre.prior.tx_queue[i]

\* C35 as stated: of two requests with the same message handled
\* concurrently while exactly one pending transaction, the last, has that
\* triggering message, at most one submits the transaction, and the second
\* neither pops nor submits a different, older entry.
C35_SubmittedAtMostOnce ==
    SecondOfTwo =>
        /\ ~(last.pre.prior.broadcast # <<>> /\ last.broadcast # <<>>)
        /\ NoOlderEntryTouched

\* C35, amended: the handlers of the two requests run one after the other.
\* When the first obtained the receipt, the second finds the entry gone: it
\* is no confirmation, submits nothing and pops nothing.  When the chain
\* oracle failed for the first, the second finds the store as the first
\* found it and confirms the same entry, so that the transaction is sent to
\* the chain by both.  In neither case does the second request pop or
\* submit a different, older entry.
C35_CompletedAtMostOnce ==
    SecondOfTwo =>
        /\ NoOlderEntryTouched
        /\ IF last.pre.prior.receipts # <<>>
           THEN /\ last.pre.tx_queue =
                      SubSeq(last.pre.prior.tx_queue, 1,
                             Len(last.pre.prior.tx_queue) - 1)
                /\ last.branch # "confirm"
                /\ last.chain_sent = <<>>
                /\ Len(tx_queue) >= Len(last.pre.tx_queue)
           ELSE /\ last.pre.tx_queue = last.pre.prior.tx_queue
                /\ last.branch = "confirm"
                /\ last.chain_sent = last.pre.prior.chain_sent

\* C35 happens: two requests with the message of the last of two pending
\* transactions were in flight; the first was confirmed with a receipt, the
\* second was classified, and the older entry is still pending.
C35_Witness ==
    /\ SecondOfTwo
    /\ last.pre.prior.receipts # <<>>
    /\ last.branch = "route"
    /\ Len(last.pre.prior.tx_queue) = 2
    /\ tx_queue # <<>>
    /\ tx_queue[1] = last.pre.prior.tx_queue[1]

\* How handling the last message changed the length of the store.
Grown == Len(tx_queue) - Len(last.pre.tx_queue)

\* What C36 says of every message but a confirmation: "/reset" empties the
\* store, a send handler that extracted and built a transaction makes it
\* one entry longer, and an unknown command, a message taken as a nonce and
\* the other handlers leave it as it was.
FrameOutsideConfirmation ==
    /\ last.branch = "command" =>
          IF last.message = ResetCommand THEN tx_queue = <<>>
          ELSE tx_queue = last.pre.tx_queue
    /\ last.branch = "attestation" => tx_queue = last.pre.tx_queue
    /\ last.branch = "route" =>
          IF last.route = SEND_TOKEN /\ ExtractionAccepted /\ last.status_code = 200
          THEN Grown = 1
          ELSE tx_queue = last.pre.tx_queue

\* C36 as stated: the store gets one entry longer by a send handler that
\* built a transaction, one shorter by a successful confirmation, empty by
\* "/reset"; every other handling leaves it unchanged, and so does every
\* handling that ends in an error.
C36_StoreLengthFrame ==
    /\ FrameOutsideConfirmation
    /\ last.branch = "confirm" =>
          IF last.status_code = 200 THEN Grown = -1
          ELSE tx_queue = last.pre.tx_queue
    /\ last.status_code = 500 => tx_queue = last.pre.tx_queue

\* C36, amended: as stated, except that a confirmation makes the store one
\* entry shorter whenever the chain oracle returned the receipt, also when
\* the request then ends in an error because the reply could not be
\* generated; every other handling that ends in an error leaves the store
\* unchanged.
C36_StoreLengthFrameSubmitted ==
    /\ FrameOutsideConfirmation
    /\ last.branch = "confirm" =>
          IF last.receipts # <<>> THEN Grown = -1
          ELSE tx_queue = last.pre.tx_queue /\ last.status_code = 500
    /\ last.status_code = 500 =>
          \/ tx_queue = last.pre.tx_queue
          \/ last.branch = "confirm" /\ last.receipts # <<>> /\ Grown = -1

\* C36 happens: the last of two pending transactions was confirmed and its
\* receipt came back, the completion of the reply raised, and the store is
\* one entry shorter although the request ended in an error.
C36_Witness ==
    /\ last.branch = "confirm"
    /\ last.status_code = 500
    /\ last.logged.msg = <<"generate_content">>
    /\ Len(last.pre.tx_queue) = 2
    /\ Grown = -1

\* C37: in every state the chat router reaches no two adjacent entries of
\* the store have the same triggering message: a message equal to the
\* triggering message of the last entry is taken as its confirmation,
\* whatever else is pending or requested, and appends nothing.
C37_NoAdjacentSameMessage ==
    /\ \A i \in 1..(Len(tx_queue) - 1) : tx_queue[i].msg # tx_queue[i + 1].msg
    /\ MatchesLast =>
          /\ last.branch = "confirm"
          /\ last.classified = 0
          /\ ~last.appended
          /\ Len(tx_queue) <= Len(last.pre.tx_queue)

\* C37 happens: the message of the last of two pending transactions was
\* sent again while the chain oracle failed; it was taken as a confirmation,
\* nothing was queued and the two entries, with different messages, are
\* still pending.
C37_Witness ==
    /\ MatchesLast
    /\ last.branch = "confirm"
    /\ last.receipts = <<>>
    /\ Len(tx_queue) = 2
    /\ tx_queue = last.pre.tx_queue
    /\ tx_queue[1].msg # tx_queue[2].msg

\* C38: in every state of the Flare service the address is set exactly when
\* the private key is set, and the two belong to the same account:
\* generate_account sets both, reset clears both, and no other method
\* changes either of them, whether it returns or raises.
C38_AddressIffKey ==
    /\ Truthy(address) <=> Truthy(private_key)
    /\ \A n \in 1..MaxAccounts : address = AddressOf(n) <=> private_key = KeyOf(n)
    /\ last.branch = "reset" => address = None /\ private_key = None
    /\ last.branch \in {"add_tx_to_queue", "send_tx_in_queue", "check_balance",
                        "sign_and_send_transaction", "create_send_flr_tx"} =>
          /\ address = last.pre.address
          /\ private_key = last.pre.private_key

\* C38 happens: the pending transaction of a service with an account was
\* sent but its receipt did not come; address and key are those of the
\* second account the service generated, as before the call.
C38_Witness ==
    /\ last.branch = "send_tx_in_queue"
    /\ last.raised.type = "TimeExhausted"
    /\ address = AddressOf(2)
    /\ private_key = KeyOf(2)
    /\ address = last.pre.address

\* C39: a simulating client still validates the nonces first.  When a nonce
\* of the list is out of range get_token raises VtpmAttestationError and
\* returns no token, the simulated one included; otherwise it returns the
\* fixed simulated token, whatever the nonces and the state of the
\* attestation service, and nothing is connected or requested.
C39_SimulateValidatesFirst ==
    (simulate /\ last.branch = "get_token") =>
        /\ last.posted = 0
        /\ last.calls = <<>>
        /\ IF bad_nonces(last.nonces[1]) # {}
           THEN /\ last.raised.type = "VtpmAttestationError"
                /\ last.response = None
           ELSE /\ last.raised = NoExc
                /\ last.response = SIM_TOKEN

\* C39 happens: a simulating client was given a valid nonce and one of nine
\* bytes, and raised.
C39_Witness ==
    /\ simulate
    /\ last.branch = "get_token"
    /\ last.nonces = << <<Ascii(74), Ascii(9)>> >>
    /\ last.raised.type = "VtpmAttestationError"
    /\ last.response = None

====
